---------------------------- MODULE Spec2Model ----------------------------
(***************************************************************************)
(* Model of the growth/aggregation engine of the vehicle-registration      *)
(* dashboard: VehicleDataProcessor (src/src/data/processor.py) and the     *)
(* static GrowthCalculator methods (src/src/utils/calculations.py).        *)
(*                                                                         *)
(* A data frame is a sequence of rows; a row is a function from column     *)
(* names to values.  Text values that the code orders (period labels) are  *)
(* sequences of character codes, so that their lexical order is computed   *)
(* and not assumed.  Floating point columns hold a finite rational, NaN or *)
(* a signed infinity; rounding of finite values is not modelled.           *)
(* growth_metrics and vehicle_registrations are the tables of those names  *)
(* in the SQLite database of DatabaseManager (src/src/utils/database.py),  *)
(* each a bag of rows.                                                     *)
(***************************************************************************)
EXTENDS Integers, Sequences, FiniteSets, Bags, TLC

VARIABLES data, raw_data, processed_data, result, growth_metrics,
          vehicle_registrations

vars == <<data, raw_data, processed_data, result, growth_metrics,
          vehicle_registrations>>

(***************************************************************************)
(* Bounds of the model.                                                    *)
(***************************************************************************)
MaxLen == 3

(***************************************************************************)
(* Floating point values as pandas/numpy produce them.                     *)
(***************************************************************************)
NaN == [k |-> "nan", n |-> 0, d |-> 1]

Inf(s) == [k |-> "inf", n |-> s, d |-> 1]

Abs(x) == IF x < 0 THEN -x ELSE x

RECURSIVE GCD(_, _)
GCD(a, b) == IF b = 0 THEN a ELSE GCD(b, a % b)

Fin(num, den) ==
    LET g == GCD(Abs(num), Abs(den))
        s == IF den < 0 THEN -1 ELSE 1
    IN  [k |-> "fin", n |-> s * (num \div g), d |-> s * (den \div g)]

Num(x) == Fin(x, 1)

IsNaN(x) == x.k = "nan"

IsInf(x) == x.k = "inf"

IsFin(x) == x.k = "fin"

Sign(x) == IF x.n > 0 THEN 1 ELSE IF x.n < 0 THEN -1 ELSE 0

FSub(a, b) ==
    IF IsNaN(a) \/ IsNaN(b) THEN NaN
    ELSE IF IsInf(a) /\ IsInf(b) THEN (IF a.n = b.n THEN NaN ELSE a)
    ELSE IF IsInf(a) THEN a
    ELSE IF IsInf(b) THEN Inf(-b.n)
    ELSE Fin(a.n * b.d - b.n * a.d, a.d * b.d)

FMul(a, b) ==
    IF IsNaN(a) \/ IsNaN(b) THEN NaN
    ELSE IF IsInf(a) \/ IsInf(b)
         THEN (IF Sign(a) * Sign(b) = 0 THEN NaN ELSE Inf(Sign(a) * Sign(b)))
    ELSE Fin(a.n * b.n, a.d * b.d)

FDiv(a, b) ==
    IF IsNaN(a) \/ IsNaN(b) THEN NaN
    ELSE IF IsInf(a) THEN (IF IsInf(b) THEN NaN
                           ELSE Inf(a.n * (IF b.n < 0 THEN -1 ELSE 1)))
    ELSE IF IsInf(b) THEN Num(0)
    ELSE IF b.n = 0 THEN (IF a.n = 0 THEN NaN ELSE Inf(Sign(a)))
    ELSE Fin(a.n * b.d, a.d * b.n)

FAdd(a, b) == FSub(a, FSub(Num(0), b))

ReplaceOnlyNegInf(x) == IF IsInf(x) /\ x.n < 0 THEN NaN ELSE x

ReplaceInf(x) == IF IsInf(x) THEN NaN ELSE x

(***************************************************************************)
(* Text: str(int), strftime('%Y-%m') and Python's ordering of strings.     *)
(***************************************************************************)
Digit(x) == 48 + x

RECURSIVE IntToStr(_)
IntToStr(x) == IF x < 10 THEN <<Digit(x)>>
               ELSE Append(IntToStr(x \div 10), Digit(x % 10))

Pad2(x) == <<Digit(x \div 10), Digit(x % 10)>>

StrfYmUnpadded(date) == IntToStr(date.year) \o <<45>> \o IntToStr(date.month)

StrfYm(date) == IntToStr(date.year) \o <<45>> \o Pad2(date.month)

YearQuarterLabel(year, quarter) ==
    IntToStr(year) \o <<45, 81>> \o IntToStr(quarter)

LexLess(s, t) ==
    \/ /\ Len(s) < Len(t)
       /\ \A i \in 1..Len(s) : s[i] = t[i]
    \/ \E i \in 1..Len(s) :
          /\ i <= Len(t)
          /\ s[i] < t[i]
          /\ \A j \in 1..(i - 1) : s[j] = t[j]

NameOrder == <<"2W", "3W", "4W", "A", "Atul Auto", "B", "Bajaj", "C",
               "Force Motors", "Hero MotoCorp", "Honda", "Honda Cars", "Hyundai",
               "Kia", "Mahindra", "Maruti Suzuki", "Piaggio", "Royal Enfield",
               "TVS", "Tata Motors", "Yamaha">>

NameRank(s) == CHOOSE i \in 1..Len(NameOrder) : NameOrder[i] = s

StrLess(a, b) == NameRank(a) < NameRank(b)

TextCols == {"year_month", "year_quarter"}

NameCols == {"vehicle_category", "manufacturer"}

DateLess(a, b) ==
    \/ a.year < b.year
    \/ a.year = b.year /\ a.month < b.month
    \/ a.year = b.year /\ a.month = b.month /\ a.day < b.day

ColLess(col, a, b) ==
    IF col \in TextCols THEN LexLess(a, b)
    ELSE IF col \in NameCols THEN StrLess(a, b)
    ELSE IF col = "date" THEN DateLess(a, b)
    ELSE a < b

(***************************************************************************)
(* Data frame primitives: groupby (sorted keys), aggregation, sort_values, *)
(* groupby().shift(1), merge.                                              *)
(***************************************************************************)
Range(s) == {s[i] : i \in 1..Len(s)}

KeyOf(r, cols) == [i \in 1..Len(cols) |-> r[cols[i]]]

KeyLess(a, b, cols) ==
    \E i \in 1..Len(cols) :
        /\ \A j \in 1..(i - 1) : a[j] = b[j]
        /\ ColLess(cols[i], a[i], b[i])

RowLess(a, b, cols) == KeyLess(KeyOf(a, cols), KeyOf(b, cols), cols)

RECURSIVE SortedKeys(_, _)
SortedKeys(S, cols) ==
    IF S = {} THEN <<>>
    ELSE LET m == CHOOSE x \in S : \A y \in S \ {x} : KeyLess(x, y, cols)
         IN  <<m>> \o SortedKeys(S \ {m}, cols)

SortValues(df, cols) == SortSeq(df, LAMBDA a, b : RowLess(a, b, cols))

SumColDropDuplicates(df, col) ==
    LET S == Range(df)
        f[T \in SUBSET S] ==
            IF T = {} THEN 0
            ELSE LET r == CHOOSE x \in T : TRUE IN r[col] + f[T \ {r}]
    IN  f[S]

RECURSIVE SumCol(_, _)
SumCol(df, col) ==
    IF df = <<>> THEN 0 ELSE Head(df)[col] + SumCol(Tail(df), col)

GroupRows(df, cols, key) == SelectSeq(df, LAMBDA r : KeyOf(r, cols) = key)

KeyRow(cols, key) == [c \in Range(cols) |->
                        key[CHOOSE i \in 1..Len(cols) : cols[i] = c]]

GroupBySum(df, cols, valcol) ==
    LET keys == SortedKeys({KeyOf(df[i], cols) : i \in 1..Len(df)}, cols)
    IN  [i \in 1..Len(keys) |->
            KeyRow(cols, keys[i]) @@
            (valcol :> SumCol(GroupRows(df, cols, keys[i]), valcol))]

GroupBySumFirst(df, cols, valcol, firstcol) ==
    LET keys == SortedKeys({KeyOf(df[i], cols) : i \in 1..Len(df)}, cols)
    IN  [i \in 1..Len(keys) |->
            KeyRow(cols, keys[i]) @@
            (valcol :> SumCol(GroupRows(df, cols, keys[i]), valcol)) @@
            (firstcol :> Head(GroupRows(df, cols, keys[i]))[firstcol])]

GroupShiftBackwards(df, cols, valcol) ==
    [i \in 1..Len(df) |->
        LET after == {j \in (i + 1)..Len(df) : KeyOf(df[j], cols) = KeyOf(df[i], cols)}
        IN  IF after = {} THEN NaN
            ELSE Num(df[CHOOSE j \in after : \A h \in after : j <= h][valcol])]

GroupShift(df, cols, valcol) ==
    [i \in 1..Len(df) |->
        LET before == {j \in 1..(i - 1) : KeyOf(df[j], cols) = KeyOf(df[i], cols)}
        IN  IF before = {} THEN NaN
            ELSE Num(df[CHOOSE j \in before : \A h \in before : h <= j][valcol])]

Shift(df, valcol) ==
    [i \in 1..Len(df) |-> IF i = 1 THEN NaN ELSE Num(df[i - 1][valcol])]

(***************************************************************************)
(* VehicleDataProcessor._prepare_data                                      *)
(***************************************************************************)
QuarterOfUnshifted(month) == (month \div 3) + 1

QuarterOf(month) == ((month - 1) \div 3) + 1

PrepareRow(r) ==
    [year |-> r.date.year,
     month |-> r.date.month,
     quarter |-> QuarterOf(r.date.month),
     year_quarter |-> YearQuarterLabel(r.date.year, QuarterOf(r.date.month)),
     year_month |-> StrfYm(r.date)] @@ r

PrepareData(df) == [i \in 1..Len(df) |-> PrepareRow(df[i])]

(***************************************************************************)
(* VehicleDataProcessor.aggregate_by_period                                *)
(***************************************************************************)
Periods == {"month", "quarter", "year"}

\* The else branch of the three methods that take a period:
\* raise ValueError("Period must be 'month', 'quarter', or 'year'").
PeriodError == "ValueError: Period must be 'month', 'quarter', or 'year'"

PeriodColDefaultMonth(period) ==
    CASE period = "month" -> "year_month"
      [] period = "quarter" -> "year_quarter"
      [] period = "year" -> "year"
      [] OTHER -> "year_month"

PeriodCol(period) ==
    CASE period = "month" -> "year_month"
      [] period = "quarter" -> "year_quarter"
      [] period = "year" -> "year"
      [] OTHER -> PeriodError

aggregate_by_period_ret(df, period) ==
    GroupBySumFirst(df, <<PeriodCol(period), "vehicle_category", "manufacturer">>,
                    "registrations", "date")

(***************************************************************************)
(* Growth columns: value - previous, growth / previous * 100, and the      *)
(* replacement of infinities by NaN.                                       *)
(***************************************************************************)
GrowthAbs(value, prev) == FSub(Num(value), prev)

GrowthPctRaw(growth_abs, prev) == FMul(FDiv(growth_abs, prev), Num(100))

WithGrowthDropNa(df, prev, prevcol, abscol, pctcol) ==
    LET keep == SelectSeq([i \in 1..Len(df) |-> i], LAMBDA i : ~IsNaN(prev[i]))
    IN  [k \in 1..Len(keep) |->
            df[keep[k]] @@ (prevcol :> prev[keep[k]])
              @@ (abscol :> GrowthAbs(df[keep[k]].registrations, prev[keep[k]]))
              @@ (pctcol :> ReplaceInf(GrowthPctRaw(
                                GrowthAbs(df[keep[k]].registrations, prev[keep[k]]),
                                prev[keep[k]])))]

WithGrowth(df, prev, prevcol, abscol, pctcol) ==
    [i \in 1..Len(df) |->
        df[i] @@ (prevcol :> prev[i])
              @@ (abscol :> GrowthAbs(df[i].registrations, prev[i]))
              @@ (pctcol :> ReplaceInf(GrowthPctRaw(
                                GrowthAbs(df[i].registrations, prev[i]), prev[i])))]

(***************************************************************************)
(* VehicleDataProcessor.calculate_yoy_growth / calculate_qoq_growth        *)
(***************************************************************************)
GroupCM == <<"vehicle_category", "manufacturer">>

calculate_yoy_growth_calendar(df) ==
    LET yearly_data == SortValues(
            GroupBySum(df, <<"year">> \o GroupCM, "registrations"),
            GroupCM \o <<"year">>)
        prev == [i \in 1..Len(yearly_data) |->
                    LET before == {j \in 1..Len(yearly_data) :
                            /\ KeyOf(yearly_data[j], GroupCM)
                                   = KeyOf(yearly_data[i], GroupCM)
                            /\ yearly_data[j].year = yearly_data[i].year - 1}
                    IN  IF before = {} THEN NaN
                        ELSE Num(yearly_data[CHOOSE j \in before : TRUE]
                                     .registrations)]
    IN  WithGrowth(yearly_data, prev,
                   "prev_year_registrations", "yoy_growth_abs", "yoy_growth_pct")

calculate_yoy_growth_ret(df) ==
    LET yearly_data == SortValues(
            GroupBySum(df, <<"year">> \o GroupCM, "registrations"),
            GroupCM \o <<"year">>)
    IN  WithGrowth(yearly_data, GroupShift(yearly_data, GroupCM, "registrations"),
                   "prev_year_registrations", "yoy_growth_abs", "yoy_growth_pct")

QuarterId(year, quarter) == year * 10 + quarter

WithQuarterId(df) ==
    [i \in 1..Len(df) |->
        df[i] @@ [quarter_id |-> QuarterId(df[i].year, df[i].quarter)]]

calculate_qoq_growth_ret(df) ==
    LET quarterly_data == SortValues(
            WithQuarterId(GroupBySum(df, <<"year", "quarter">> \o GroupCM,
                                     "registrations")),
            GroupCM \o <<"quarter_id">>)
    IN  WithGrowth(quarterly_data,
                   GroupShift(quarterly_data, GroupCM, "registrations"),
                   "prev_quarter_registrations", "qoq_growth_abs", "qoq_growth_pct")

(***************************************************************************)
(* VehicleDataProcessor.get_category_trends                                *)
(***************************************************************************)
get_category_trends_ret(df) ==
    LET category_trends == SortValues(
            GroupBySum(df, <<"year_month", "vehicle_category">>, "registrations"),
            <<"vehicle_category", "year_month">>)
        prev == GroupShift(category_trends, <<"vehicle_category">>, "registrations")
    IN  [i \in 1..Len(category_trends) |->
            category_trends[i]
              @@ [prev_month_registrations |-> prev[i],
                  mom_growth_pct |->
                      GrowthPctRaw(GrowthAbs(category_trends[i].registrations,
                                             prev[i]), prev[i])]]

(***************************************************************************)
(* VehicleDataProcessor.get_manufacturer_rankings                          *)
(***************************************************************************)
RankCol(period) ==
    CASE period = "year" -> "year"
      [] period = "quarter" -> "year_quarter"
      [] period = "month" -> "year_month"
      [] OTHER -> PeriodError

ColMax(df, col) ==
    df[CHOOSE i \in 1..Len(df) :
          \A j \in 1..Len(df) : ~ColLess(col, df[i][col], df[j][col])][col]

SortDescending(df, col) == SortSeq(df, LAMBDA a, b : a[col] > b[col])

get_manufacturer_rankings_ascending(df, period, top_n) ==
    IF df = <<>> THEN <<>>
    ELSE LET latest_period == ColMax(df, RankCol(period))
             latest_data == SelectSeq(df, LAMBDA r : r[RankCol(period)] = latest_period)
             rankings == GroupBySum(latest_data,
                                    <<"manufacturer", "vehicle_category">>,
                                    "registrations")
             overall_rankings == SortSeq(
                 GroupBySum(rankings, <<"manufacturer">>, "registrations"),
                 LAMBDA a, b : a.registrations < b.registrations)
         IN  SubSeq(overall_rankings, 1,
                    IF top_n < Len(overall_rankings) THEN top_n
                    ELSE Len(overall_rankings))

get_manufacturer_rankings_ret(df, period, top_n) ==
    IF df = <<>> THEN <<>>
    ELSE LET latest_period == ColMax(df, RankCol(period))
             latest_data == SelectSeq(df, LAMBDA r : r[RankCol(period)] = latest_period)
             rankings == GroupBySum(latest_data,
                                    <<"manufacturer", "vehicle_category">>,
                                    "registrations")
             overall_rankings == SortDescending(
                 GroupBySum(rankings, <<"manufacturer">>, "registrations"),
                 "registrations")
         IN  SubSeq(overall_rankings, 1,
                    IF top_n < Len(overall_rankings) THEN top_n
                    ELSE Len(overall_rankings))

(***************************************************************************)
(* VehicleDataProcessor.filter_data.  An optional argument is a record     *)
(* [given, v]: given = FALSE is Python's None.  "if x:" is false for None  *)
(* and for an empty list.                                                  *)
(***************************************************************************)
NoDate == [year |-> 0, month |-> 0, day |-> 0]

Absent(v) == [given |-> FALSE, v |-> v]

Given(v) == [given |-> TRUE, v |-> v]

TruthyWhenGiven(opt) == opt.given

Truthy(opt) == opt.given /\ opt.v # <<>>

filter_data_ret(df, start_date, end_date, vehicle_categories, manufacturers) ==
    LET d1 == IF start_date.given
              THEN SelectSeq(df, LAMBDA r : ~DateLess(r.date, start_date.v))
              ELSE df
        d2 == IF end_date.given
              THEN SelectSeq(d1, LAMBDA r : ~DateLess(end_date.v, r.date))
              ELSE d1
        d3 == IF Truthy(vehicle_categories)
              THEN SelectSeq(d2, LAMBDA r :
                       r.vehicle_category \in Range(vehicle_categories.v))
              ELSE d2
    IN  IF Truthy(manufacturers)
        THEN SelectSeq(d3, LAMBDA r : r.manufacturer \in Range(manufacturers.v))
        ELSE d3

(***************************************************************************)
(* VehicleDataProcessor.get_market_share                                   *)
(***************************************************************************)
Merge(left, right, on) ==
    [i \in 1..Len(left) |->
        left[i] @@ right[CHOOSE j \in 1..Len(right) :
                            KeyOf(right[j], on) = KeyOf(left[i], on)]]

Rename(df, old, new) ==
    [i \in 1..Len(df) |->
        [c \in (DOMAIN df[i] \ {old}) \cup {new} |->
            IF c = new THEN df[i][old] ELSE df[i][c]]]

SharePct(value, total) == FMul(FDiv(Num(value), Num(total)), Num(100))

get_market_share_ret(df, period) ==
    LET period_col == RankCol(period)
        market_data == GroupBySum(df,
            <<period_col, "vehicle_category", "manufacturer">>, "registrations")
        category_totals == Rename(
            GroupBySum(market_data, <<period_col, "vehicle_category">>,
                       "registrations"),
            "registrations", "category_total")
        market_share == Merge(market_data, category_totals,
                              <<period_col, "vehicle_category">>)
    IN  [i \in 1..Len(market_share) |->
            market_share[i] @@
            [market_share_pct |-> SharePct(market_share[i].registrations,
                                           market_share[i].category_total)]]

(***************************************************************************)
(* GrowthCalculator (static methods on a caller's frame)                   *)
(***************************************************************************)
ShiftBy(df, group_cols, valcol) ==
    IF group_cols # <<>> THEN GroupShift(df, group_cols, valcol)
    ELSE Shift(df, valcol)

GrowthCalculator_calculate_yoy_growth_ungrouped(df0, group_cols) ==
    LET df == [i \in 1..Len(df0) |-> [year |-> df0[i].date.year] @@ df0[i]]
        yearly_data == SortValues(
            GroupBySum(df, <<"year">> \o group_cols, "registrations"),
            group_cols \o <<"year">>)
    IN  WithGrowth(yearly_data, Shift(yearly_data, "registrations"),
                   "prev_year_value", "yoy_growth_abs", "yoy_growth_pct")

GrowthCalculator_calculate_yoy_growth(df0, group_cols) ==
    LET df == [i \in 1..Len(df0) |-> [year |-> df0[i].date.year] @@ df0[i]]
        yearly_data == SortValues(
            GroupBySum(df, <<"year">> \o group_cols, "registrations"),
            group_cols \o <<"year">>)
    IN  WithGrowth(yearly_data, ShiftBy(yearly_data, group_cols, "registrations"),
                   "prev_year_value", "yoy_growth_abs", "yoy_growth_pct")

GrowthCalculator_calculate_qoq_growth(df0, group_cols) ==
    LET df == [i \in 1..Len(df0) |->
                 [year |-> df0[i].date.year,
                  quarter |-> QuarterOf(df0[i].date.month),
                  year_quarter |-> YearQuarterLabel(df0[i].date.year,
                                                    QuarterOf(df0[i].date.month)),
                  quarter_id |-> QuarterId(df0[i].date.year,
                                           QuarterOf(df0[i].date.month))] @@ df0[i]]
        quarterly_data == SortValues(
            GroupBySum(df, <<"year", "quarter", "quarter_id">> \o group_cols,
                       "registrations"),
            group_cols \o <<"quarter_id">>)
    IN  WithGrowth(quarterly_data,
                   ShiftBy(quarterly_data, group_cols, "registrations"),
                   "prev_quarter_value", "qoq_growth_abs", "qoq_growth_pct")

GrowthCalculator_calculate_mom_growth(df0, group_cols) ==
    LET df == [i \in 1..Len(df0) |-> [year_month |-> StrfYm(df0[i].date)] @@ df0[i]]
        monthly_data == SortValues(
            GroupBySum(df, <<"year_month">> \o group_cols, "registrations"),
            group_cols \o <<"year_month">>)
    IN  WithGrowth(monthly_data, ShiftBy(monthly_data, group_cols, "registrations"),
                   "prev_month_value", "mom_growth_abs", "mom_growth_pct")

GrowthCalculator_calculate_market_share(df, period_col) ==
    LET grouped == GroupBySum(df,
            <<period_col, "vehicle_category", "manufacturer">>, "registrations")
        totals == Rename(
            GroupBySum(grouped, <<period_col, "vehicle_category">>, "registrations"),
            "registrations", "total_market")
        market_share_data == Merge(grouped, totals,
                                   <<period_col, "vehicle_category">>)
    IN  [i \in 1..Len(market_share_data) |->
            market_share_data[i] @@
            [market_share_pct |-> SharePct(market_share_data[i].registrations,
                                           market_share_data[i].total_market)]]

(***************************************************************************)
(* VehicleDataProcessor.get_summary_stats.  On a frame without rows        *)
(* df['date'].min() is NaT, whose strftime raises ValueError.              *)
(***************************************************************************)
StrfYmd(date) == StrfYm(date) \o <<45>> \o Pad2(date.day)

ColMin(df, col) ==
    df[CHOOSE i \in 1..Len(df) :
          \A j \in 1..Len(df) : ~ColLess(col, df[j][col], df[i][col])][col]

RECURSIVE Unique(_, _)
Unique(df, col) ==
    IF df = <<>> THEN <<>>
    ELSE LET rest == Unique(SubSeq(df, 1, Len(df) - 1), col)
             v == df[Len(df)][col]
         IN  IF v \in Range(rest) THEN rest ELSE Append(rest, v)

Mean(df, col) == IF df = <<>> THEN NaN ELSE Fin(SumCol(df, col), Len(df))

get_summary_stats_ret(df) ==
    IF df = <<>> THEN [error |-> "ValueError"]
    ELSE [error |-> "",
          total_records |-> Len(df),
          date_range |-> [start |-> StrfYmd(ColMin(df, "date")),
                          end |-> StrfYmd(ColMax(df, "date"))],
          total_registrations |-> SumCol(df, "registrations"),
          vehicle_categories |-> Unique(df, "vehicle_category"),
          manufacturers |-> Unique(df, "manufacturer"),
          years_covered |-> SortedKeys({<<df[i].year>> : i \in 1..Len(df)},
                                       <<"year">>),
          avg_monthly_registrations |->
              Mean(GroupBySum(df, <<"year_month">>, "registrations"),
                   "registrations")]

(***************************************************************************)
(* Series (pd.Series of floats): sequences of float values.                *)
(***************************************************************************)
FNeg(x) == FSub(Num(0), x)

FAbs(x) == IF IsNaN(x) THEN NaN ELSE IF IsInf(x) THEN Inf(1)
           ELSE Fin(Abs(x.n), x.d)

\* a < b as IEEE compares: false when either side is NaN.
FLess(a, b) ==
    IF IsNaN(a) \/ IsNaN(b) THEN FALSE
    ELSE IF IsInf(a) THEN a.n < 0 /\ ~(IsInf(b) /\ b.n < 0)
    ELSE IF IsInf(b) THEN b.n > 0
    ELSE a.n * b.d < b.n * a.d

RECURSIVE FSum(_)
FSum(s) == IF s = <<>> THEN Num(0)
           ELSE FAdd(FSum(SubSeq(s, 1, Len(s) - 1)), s[Len(s)])

DropNaKeepAll(s) == s

DropNa(s) == SelectSeq(s, LAMBDA x : ~IsNaN(x))

SeriesMean(s) == FDiv(FSum(s), Num(Len(s)))

(***************************************************************************)
(* GrowthCalculator.calculate_moving_average:                              *)
(* data.rolling(window=window, center=True).mean().  The window of         *)
(* position i ends at i + (window - 1) // 2; min_periods defaults to the   *)
(* window size, so a window that leaves the series or holds a NaN gives    *)
(* NaN.                                                                    *)
(***************************************************************************)
calculate_moving_average_trailing(series, window) ==
    [i \in 1..Len(series) |->
        IF i - window + 1 < 1 THEN NaN
        ELSE FDiv(FSum(SubSeq(series, i - window + 1, i)), Num(window))]

calculate_moving_average_ret(series, window) ==
    [i \in 1..Len(series) |->
        LET end == i + ((window - 1) \div 2)
            start == end - window + 1
        IN  IF start < 1 \/ end > Len(series) THEN NaN
            ELSE FDiv(FSum(SubSeq(series, start, end)), Num(window))]

(***************************************************************************)
(* GrowthCalculator.detect_trend.  np.polyfit(x, y, 1)[0] is the least     *)
(* squares slope over x = 0..n-1.                                          *)
(***************************************************************************)
PolyfitSlope(y) ==
    LET n == Len(y)
        sx == FSum([i \in 1..n |-> Num(i - 1)])
        sxx == FSum([i \in 1..n |-> Num((i - 1) * (i - 1))])
        sy == FSum(y)
        sxy == FSum([i \in 1..n |-> FMul(Num(i - 1), y[i])])
    IN  FDiv(FSub(FMul(Num(n), sxy), FMul(sx, sy)),
             FSub(FMul(Num(n), sxx), FMul(sx, sx)))

detect_trend_signed_threshold(series, min_periods) ==
    IF Len(series) < min_periods THEN "insufficient_data"
    ELSE LET clean_data == DropNa(series)
         IN  IF Len(clean_data) < min_periods THEN "insufficient_data"
             ELSE LET slope == PolyfitSlope(clean_data)
                      mean_value == SeriesMean(clean_data)
                      threshold == FMul(mean_value, Fin(5, 100))
                  IN  IF FLess(threshold, slope) THEN "increasing"
                      ELSE IF FLess(slope, FNeg(threshold)) THEN "decreasing"
                      ELSE "stable"

detect_trend_ret(series, min_periods) ==
    IF Len(series) < min_periods THEN "insufficient_data"
    ELSE LET clean_data == DropNa(series)
         IN  IF Len(clean_data) < min_periods THEN "insufficient_data"
             ELSE LET slope == PolyfitSlope(clean_data)
                      mean_value == SeriesMean(clean_data)
                      threshold == FAbs(FMul(mean_value, Fin(5, 100)))
                  IN  IF FLess(threshold, slope) THEN "increasing"
                      ELSE IF FLess(slope, FNeg(threshold)) THEN "decreasing"
                      ELSE "stable"

(***************************************************************************)
(* Sample standard deviation (pandas std, ddof = 1).  A square root is     *)
(* kept exact: [k |-> "sqrt", n, d] is the root of n/d, and                *)
(* [k |-> "recip1p", n, d] is 1 / (1 + root of n/d).                       *)
(***************************************************************************)
Variance(s) ==
    LET m == SeriesMean(s)
    IN  FDiv(FSum([i \in 1..Len(s) |-> FMul(FSub(s[i], m), FSub(s[i], m))]),
             Num(Len(s) - 1))

Sqrt(x) == IF IsFin(x) THEN [k |-> "sqrt", n |-> x.n, d |-> x.d] ELSE x

SeriesStd(s) == Sqrt(Variance(s))

\* root / m for a finite m >= 0, as IEEE divides: x/0 is inf, 0/0 is NaN.
RootOver(root, m) ==
    IF IsNaN(root) \/ IsNaN(m) THEN NaN
    ELSE IF m.n = 0 THEN (IF root.n = 0 THEN NaN ELSE Inf(1))
    ELSE LET q == Fin(root.n * m.d * m.d, root.d * m.n * m.n)
         IN  [k |-> "sqrt", n |-> q.n, d |-> q.d]

\* 1 / (1 + cv) for cv a root, NaN or +inf.
OneOverOnePlus(cv) ==
    IF IsNaN(cv) THEN NaN
    ELSE IF IsInf(cv) THEN Num(0)
    ELSE [k |-> "recip1p", n |-> cv.n, d |-> cv.d]

(***************************************************************************)
(* GrowthCalculator.calculate_growth_consistency                           *)
(***************************************************************************)
calculate_growth_consistency_ret(growth_rates) ==
    LET clean_rates == DropNa(growth_rates)
    IN  IF Len(clean_rates) < 2
        THEN [mean_growth |-> NaN, std_growth |-> NaN,
              coefficient_variation |-> NaN, positive_periods |-> NaN,
              consistency_score |-> NaN]
        ELSE LET mean_growth == SeriesMean(clean_rates)
                 std_growth == SeriesStd(clean_rates)
                 coefficient_variation ==
                     IF mean_growth.n # 0
                     THEN RootOver(std_growth, FAbs(mean_growth))
                     ELSE Inf(1)
                 positive_periods ==
                     Fin(Len(SelectSeq(clean_rates,
                                       LAMBDA x : FLess(Num(0), x))) * 100,
                         Len(clean_rates))
                 consistency_score ==
                     IF ~IsInf(coefficient_variation)
                     THEN OneOverOnePlus(coefficient_variation)
                     ELSE Num(0)
             IN  [mean_growth |-> mean_growth, std_growth |-> std_growth,
                  coefficient_variation |-> coefficient_variation,
                  positive_periods |-> positive_periods,
                  consistency_score |-> consistency_score]

(***************************************************************************)
(* calculate_growth_benchmarks.  np.percentile interpolates linearly       *)
(* between the order statistics around position (n - 1) * q / 100.  The    *)
(* empty dict is the empty function <<>>.                                  *)
(***************************************************************************)
PercentileLower(a, q) ==
    LET sorted == SortSeq(a, FLess)
    IN  sorted[(((Len(a) - 1) * q) \div 100) + 1]

Percentile(a, q) ==
    LET sorted == SortSeq(a, FLess)
        n == Len(a)
        lo == ((n - 1) * q) \div 100
        frac == FSub(Fin((n - 1) * q, 100), Num(lo))
    IN  IF lo + 1 >= n THEN sorted[n]
        ELSE FAdd(sorted[lo + 1],
                  FMul(frac, FSub(sorted[lo + 2], sorted[lo + 1])))

SeriesMin(s) == SortSeq(s, FLess)[1]

SeriesMax(s) == SortSeq(s, FLess)[Len(s)]

calculate_growth_benchmarks_ret(df, growth_col) ==
    LET clean_data == SelectSeq(df, LAMBDA r : ~IsNaN(r[growth_col]))
        growth_rates == [i \in 1..Len(clean_data) |-> clean_data[i][growth_col]]
    IN  IF clean_data = <<>> THEN <<>>
        ELSE [p25 |-> Percentile(growth_rates, 25),
              median |-> Percentile(growth_rates, 50),
              p75 |-> Percentile(growth_rates, 75),
              p90 |-> Percentile(growth_rates, 90),
              mean |-> SeriesMean(growth_rates),
              std |-> SeriesStd(growth_rates),
              min |-> SeriesMin(growth_rates),
              max |-> SeriesMax(growth_rates)]

(***************************************************************************)
(* Frames the callers hand over.                                           *)
(***************************************************************************)
Date(y, m, d) == [year |-> y, month |-> m, day |-> d]

RowsOf(dates, categories, manufacturers, registrations) ==
    [date : dates, vehicle_category : categories,
     manufacturer : manufacturers, registrations : registrations]

Frames(rows) == UNION {[1..n -> rows] : n \in 0..MaxLen}

(***************************************************************************)
(* State machine: one VehicleDataProcessor built from the caller's frame   *)
(* `data` (__init__ copies it and derives processed_data); every method    *)
(* call leaves its return value in `result`, or the exception it raised in *)
(* result.raised with no value.                                            *)
(***************************************************************************)
NoArgs == [none |-> TRUE]

\* Period arguments the callers pass: the three supported ones and one that
\* is not.
PeriodArgs == Periods \cup {"week"}

Constructed(frame) ==
    /\ data = frame
    /\ raw_data = frame
    /\ processed_data = PrepareData(frame)
    /\ result = [op |-> "__init__", args |-> NoArgs, value |-> <<>>,
                 raised |-> ""]
    /\ growth_metrics = EmptyBag
    /\ vehicle_registrations = EmptyBag

Ret(op, args, value) ==
    [op |-> op, args |-> args, value |-> value, raised |-> ""]

Raise(op, args, exc) ==
    [op |-> op, args |-> args, value |-> <<>>, raised |-> exc]

get_summary_stats ==
    /\ result' = LET stats == get_summary_stats_ret(processed_data)
                  IN  IF stats.error # ""
                      THEN Raise("get_summary_stats", NoArgs, stats.error)
                      ELSE Ret("get_summary_stats", NoArgs, stats)
    /\ UNCHANGED <<data, raw_data, processed_data, growth_metrics,
                     vehicle_registrations>>

aggregate_by_period ==
    \E period \in PeriodArgs :
        /\ result' = IF PeriodCol(period) = PeriodError
                      THEN Raise("aggregate_by_period", [period |-> period],
                                 PeriodError)
                      ELSE Ret("aggregate_by_period", [period |-> period],
                               aggregate_by_period_ret(processed_data, period))
        /\ UNCHANGED <<data, raw_data, processed_data, growth_metrics,
                     vehicle_registrations>>

calculate_yoy_growth ==
    /\ result' = Ret("calculate_yoy_growth", NoArgs,
                     calculate_yoy_growth_ret(processed_data))
    /\ UNCHANGED <<data, raw_data, processed_data, growth_metrics,
                     vehicle_registrations>>

calculate_qoq_growth_in_place ==
    /\ processed_data' = WithQuarterId(processed_data)
    /\ result' = Ret("calculate_qoq_growth", NoArgs,
                     calculate_qoq_growth_ret(processed_data))
    /\ UNCHANGED <<data, raw_data, growth_metrics, vehicle_registrations>>

calculate_qoq_growth ==
    /\ result' = Ret("calculate_qoq_growth", NoArgs,
                     calculate_qoq_growth_ret(processed_data))
    /\ UNCHANGED <<data, raw_data, processed_data, growth_metrics,
                     vehicle_registrations>>

get_category_trends ==
    /\ result' = Ret("get_category_trends", NoArgs,
                     get_category_trends_ret(processed_data))
    /\ UNCHANGED <<data, raw_data, processed_data, growth_metrics,
                     vehicle_registrations>>

TopNs == {1, 10}

get_manufacturer_rankings ==
    \E period \in PeriodArgs, top_n \in TopNs :
        /\ result' = IF RankCol(period) = PeriodError
                      THEN Raise("get_manufacturer_rankings",
                                 [period |-> period, top_n |-> top_n],
                                 PeriodError)
                      ELSE Ret("get_manufacturer_rankings",
                               [period |-> period, top_n |-> top_n],
                               get_manufacturer_rankings_ret(processed_data,
                                                             period, top_n))
        /\ UNCHANGED <<data, raw_data, processed_data, growth_metrics,
                     vehicle_registrations>>

FilterArgs ==
    {[start_date |-> Absent(NoDate), end_date |-> Absent(NoDate),
      vehicle_categories |-> Absent(<<>>), manufacturers |-> Absent(<<>>)],
     [start_date |-> Given(Date(2021, 1, 5)), end_date |-> Absent(NoDate),
      vehicle_categories |-> Given(<<"4W">>), manufacturers |-> Absent(<<>>)],
     [start_date |-> Absent(NoDate), end_date |-> Given(Date(2020, 10, 5)),
      vehicle_categories |-> Given(<<>>), manufacturers |-> Given(<<"A">>)],
     [start_date |-> Absent(NoDate), end_date |-> Absent(NoDate),
      vehicle_categories |-> Absent(<<>>), manufacturers |-> Given(<<>>)],
     [start_date |-> Given(Date(2020, 10, 5)), end_date |-> Given(Date(2021, 1, 5)),
      vehicle_categories |-> Given(<<"2W", "4W">>),
      manufacturers |-> Given(<<"B">>)]}

filter_data ==
    \E a \in FilterArgs :
        /\ result' = Ret("filter_data", a,
                         filter_data_ret(processed_data, a.start_date, a.end_date,
                                         a.vehicle_categories, a.manufacturers))
        /\ UNCHANGED <<data, raw_data, processed_data, growth_metrics,
                     vehicle_registrations>>

get_market_share ==
    \E period \in PeriodArgs :
        /\ result' = IF RankCol(period) = PeriodError
                      THEN Raise("get_market_share", [period |-> period],
                                 PeriodError)
                      ELSE Ret("get_market_share", [period |-> period],
                               get_market_share_ret(processed_data, period))
        /\ UNCHANGED <<data, raw_data, processed_data, growth_metrics,
                     vehicle_registrations>>

GroupColsChoices == {<<>>, GroupCM}

GC_calculate_yoy_growth ==
    \E group_cols \in GroupColsChoices :
        /\ result' = Ret("GrowthCalculator.calculate_yoy_growth",
                         [group_cols |-> group_cols],
                         GrowthCalculator_calculate_yoy_growth(data, group_cols))
        /\ UNCHANGED <<data, raw_data, processed_data, growth_metrics,
                     vehicle_registrations>>

GC_calculate_qoq_growth ==
    \E group_cols \in GroupColsChoices :
        /\ result' = Ret("GrowthCalculator.calculate_qoq_growth",
                         [group_cols |-> group_cols],
                         GrowthCalculator_calculate_qoq_growth(data, group_cols))
        /\ UNCHANGED <<data, raw_data, processed_data, growth_metrics,
                     vehicle_registrations>>

GC_calculate_mom_growth ==
    \E group_cols \in GroupColsChoices :
        /\ result' = Ret("GrowthCalculator.calculate_mom_growth",
                         [group_cols |-> group_cols],
                         GrowthCalculator_calculate_mom_growth(data, group_cols))
        /\ UNCHANGED <<data, raw_data, processed_data, growth_metrics,
                     vehicle_registrations>>

GC_calculate_market_share ==
    /\ result' = Ret("GrowthCalculator.calculate_market_share",
                     [period_col |-> "year"],
                     GrowthCalculator_calculate_market_share(processed_data, "year"))
    /\ UNCHANGED <<data, raw_data, processed_data, growth_metrics,
                     vehicle_registrations>>

(***************************************************************************)
(* Spec: any sequence of method calls on one processor.                    *)
(***************************************************************************)
Categories == {"2W", "4W"}

Manufacturers == {"A", "B"}

SpecRows == RowsOf({Date(2020, 10, 5), Date(2021, 1, 5), Date(2021, 1, 20)},
                   {"4W"}, Manufacturers, {100})

Init == \E frame \in Frames(SpecRows) : Constructed(frame)

Next ==
    \/ get_summary_stats
    \/ aggregate_by_period
    \/ calculate_yoy_growth
    \/ calculate_qoq_growth
    \/ get_category_trends
    \/ get_manufacturer_rankings
    \/ filter_data
    \/ get_market_share

Spec == Init /\ [][Next]_vars

(***************************************************************************)
(* SpecAgg: aggregate_by_period on frames that repeat keys and that hold   *)
(* several days of one month.                                              *)
(***************************************************************************)
AggRows == RowsOf({Date(2020, 10, 5), Date(2021, 1, 5), Date(2021, 1, 20)},
                  {"4W"}, Manufacturers, {100, 150})

InitAgg == \E frame \in Frames(AggRows) : Constructed(frame)

NextAgg == aggregate_by_period

SpecAgg == InitAgg /\ [][NextAgg]_vars

(***************************************************************************)
(* Calendar position of a date at a granularity, for stating the claims:   *)
(* it grows with real time and is computed from the date alone.            *)
(***************************************************************************)
Ord(date, gran) ==
    CASE gran = "year" -> date.year
      [] gran = "quarter" -> date.year * 4 + ((date.month - 1) \div 3)
      [] gran = "month" -> date.year * 12 + (date.month - 1)

RECURSIVE SumOver(_, _)
SumOver(S, frame) ==
    IF S = {} THEN 0
    ELSE LET i == CHOOSE x \in S : TRUE
         IN  frame[i].registrations + SumOver(S \ {i}, frame)

IsAgg == result.op = "aggregate_by_period" /\ result.raised = ""

AggKeyCols == <<PeriodCol(result.args.period), "vehicle_category", "manufacturer">>

Contributors(row) ==
    {i \in 1..Len(data) :
        KeyOf(PrepareRow(data[i]), AggKeyCols) = KeyOf(row, AggKeyCols)}

(* C1: every row of aggregate_by_period carries the sum of the             *)
(* registrations of exactly the input records with its (period key,        *)
(* vehicle_category, manufacturer); repeated records are all added, every  *)
(* input record is counted in exactly one row, and the grand totals agree. *)
C1_Conservation ==
    IsAgg =>
        /\ \A k \in 1..Len(result.value) :
              /\ Contributors(result.value[k]) # {}
              /\ result.value[k].registrations =
                    SumOver(Contributors(result.value[k]), data)
        /\ \A i \in 1..Len(data) :
              Cardinality({k \in 1..Len(result.value) :
                              i \in Contributors(result.value[k])}) = 1
        /\ SumCol(result.value, "registrations") = SumOver(1..Len(data), data)

C1_Witness ==
    /\ IsAgg
    /\ result.args.period = "month"
    /\ Len(data) = 3
    /\ \E k \in 1..Len(result.value) :
          /\ Cardinality(Contributors(result.value[k])) = 2
          /\ \E i, j \in Contributors(result.value[k]) : i # j /\ data[i] = data[j]
          /\ result.value[k].registrations = 300

(* C8: aggregate_by_period returns the same set of rows, 'date' column     *)
(* included, for every reordering of the same records.                     *)
C8_OrderIndependent ==
    IsAgg =>
        \A f \in Permutations(1..Len(data)) :
            Range(aggregate_by_period_ret(
                      PrepareData([i \in 1..Len(data) |-> data[f[i]]]),
                      result.args.period))
            = Range(result.value)

(***************************************************************************)
(* SpecGrowth: the growth calculators of both classes and the category     *)
(* trends, on frames with two groups, two periods and zero registrations.  *)
(***************************************************************************)
GrowthDates == {Date(2021, 10, 5), Date(2022, 1, 5)}

GrowthRows == RowsOf(GrowthDates, {"4W"}, {"A"}, {0, 100, 150})
              \cup RowsOf(GrowthDates, {"4W"}, {"B"}, {100})

InitGrowth == \E frame \in Frames(GrowthRows) : Constructed(frame)

NextGrowth ==
    \/ calculate_yoy_growth
    \/ calculate_qoq_growth
    \/ get_category_trends
    \/ GC_calculate_yoy_growth
    \/ GC_calculate_qoq_growth
    \/ GC_calculate_mom_growth

SpecGrowth == InitGrowth /\ [][NextGrowth]_vars

(***************************************************************************)
(* SpecOrder: the same calls on frames of one group spread over months,    *)
(* quarters and years.                                                     *)
(***************************************************************************)
OrderRows == RowsOf({Date(2020, 9, 5), Date(2020, 10, 5), Date(2021, 1, 5),
                     Date(2021, 2, 5)},
                    {"4W"}, {"A"}, {100, 150})

InitOrder == \E frame \in Frames(OrderRows) : Constructed(frame)

SpecOrder == InitOrder /\ [][NextGrowth]_vars

(***************************************************************************)
(* Reading a growth table: granularity, group columns and column names of  *)
(* the call that produced `result`.                                        *)
(***************************************************************************)
GrowthOps == {"calculate_yoy_growth", "calculate_qoq_growth",
              "GrowthCalculator.calculate_yoy_growth",
              "GrowthCalculator.calculate_qoq_growth",
              "GrowthCalculator.calculate_mom_growth"}

IsGrowth == result.op \in GrowthOps

IsTrends == result.op = "get_category_trends"

Info ==
    CASE result.op = "calculate_yoy_growth" ->
            [gran |-> "year", group |-> GroupCM, prev |-> "prev_year_registrations",
             abs |-> "yoy_growth_abs", pct |-> "yoy_growth_pct"]
      [] result.op = "calculate_qoq_growth" ->
            [gran |-> "quarter", group |-> GroupCM,
             prev |-> "prev_quarter_registrations",
             abs |-> "qoq_growth_abs", pct |-> "qoq_growth_pct"]
      [] result.op = "get_category_trends" ->
            [gran |-> "month", group |-> <<"vehicle_category">>,
             prev |-> "prev_month_registrations",
             abs |-> "", pct |-> "mom_growth_pct"]
      [] result.op = "GrowthCalculator.calculate_yoy_growth" ->
            [gran |-> "year", group |-> result.args.group_cols,
             prev |-> "prev_year_value",
             abs |-> "yoy_growth_abs", pct |-> "yoy_growth_pct"]
      [] result.op = "GrowthCalculator.calculate_qoq_growth" ->
            [gran |-> "quarter", group |-> result.args.group_cols,
             prev |-> "prev_quarter_value",
             abs |-> "qoq_growth_abs", pct |-> "qoq_growth_pct"]
      [] result.op = "GrowthCalculator.calculate_mom_growth" ->
            [gran |-> "month", group |-> result.args.group_cols,
             prev |-> "prev_month_value",
             abs |-> "mom_growth_abs", pct |-> "mom_growth_pct"]

Rows == 1..Len(result.value)

Row(k) == result.value[k]

SameGroup(r, q) == KeyOf(r, Info.group) = KeyOf(q, Info.group)

(* the calendar position of an output row, found through the input records *)
(* that carry its period key                                               *)
RowOrd(row) ==
    CASE Info.gran = "year" -> row.year
      [] Info.gran = "quarter" -> row.year * 4 + (row.quarter - 1)
      [] Info.gran = "month" ->
            Ord(data[CHOOSE i \in 1..Len(data) :
                        StrfYm(data[i].date) = row.year_month].date, "month")

Members(row) ==
    {i \in 1..Len(data) :
        SameGroup(data[i], row) /\ Ord(data[i].date, Info.gran) = RowOrd(row)}

Earlier(row) ==
    {i \in 1..Len(data) :
        SameGroup(data[i], row) /\ Ord(data[i].date, Info.gran) < RowOrd(row)}

PredOrd(row) ==
    CHOOSE o \in {Ord(data[i].date, Info.gran) : i \in Earlier(row)} :
        \A i \in Earlier(row) : Ord(data[i].date, Info.gran) <= o

PredSum(row) ==
    SumOver({i \in Earlier(row) : Ord(data[i].date, Info.gran) = PredOrd(row)}, data)

PrevOf(row) == row[Info.prev]

AbsOf(row) == row[Info.abs]

PctOf(row) == row[Info.pct]

(* C2 as stated: for every row but the first of its group the previous     *)
(* value is the sum of the group's immediately preceding period,           *)
(* growth_abs = current - previous and                                     *)
(* growth_pct = growth_abs / previous * 100, whatever the previous value.  *)
C2_AsStated ==
    IsGrowth =>
        \A k \in Rows :
            Earlier(Row(k)) # {} =>
                /\ Row(k).registrations = SumOver(Members(Row(k)), data)
                /\ PrevOf(Row(k)) = Num(PredSum(Row(k)))
                /\ AbsOf(Row(k)) = Num(Row(k).registrations - PredSum(Row(k)))
                /\ PctOf(Row(k)) =
                      FMul(FDiv(Num(Row(k).registrations - PredSum(Row(k))),
                                Num(PredSum(Row(k)))), Num(100))

(* C2 amended: the same, with growth_pct = growth_abs / previous * 100     *)
(* when the previous value is not zero and growth_pct undefined when it    *)
(* is zero.                                                                *)
C2_GrowthDefinition ==
    IsGrowth =>
        \A k \in Rows :
            Earlier(Row(k)) # {} =>
                /\ Row(k).registrations = SumOver(Members(Row(k)), data)
                /\ PrevOf(Row(k)) = Num(PredSum(Row(k)))
                /\ AbsOf(Row(k)) = Num(Row(k).registrations - PredSum(Row(k)))
                /\ IF PredSum(Row(k)) # 0
                   THEN PctOf(Row(k)) =
                            Fin((Row(k).registrations - PredSum(Row(k))) * 100,
                                PredSum(Row(k)))
                   ELSE IsNaN(PctOf(Row(k)))

C2_Witness ==
    /\ result.op = "calculate_yoy_growth"
    /\ \E k, m \in Rows :
          /\ ~SameGroup(Row(k), Row(m))
          /\ Row(k).year = 2022
          /\ Row(k).registrations = 150
          /\ PrevOf(Row(k)) = Num(100)
          /\ AbsOf(Row(k)) = Num(50)
          /\ PctOf(Row(k)) = Num(50)

(* C3: growth_pct of the YoY, QoQ and MoM calculators is never infinite;   *)
(* when the previous sum is zero growth_pct is undefined, also when the    *)
(* current sum is zero, and growth_abs is current - 0.                     *)
C3_NoInfinity ==
    IsGrowth =>
        \A k \in Rows :
            /\ ~IsInf(PctOf(Row(k)))
            /\ PrevOf(Row(k)) = Num(0) =>
                  /\ IsNaN(PctOf(Row(k)))
                  /\ AbsOf(Row(k)) = Num(Row(k).registrations)

C3_Witness ==
    /\ IsGrowth
    /\ \E k \in Rows :
          /\ PrevOf(Row(k)) = Num(0)
          /\ Row(k).registrations = 150
          /\ AbsOf(Row(k)) = Num(150)
          /\ IsNaN(PctOf(Row(k)))

PeriodGroupPairs ==
    {<<Ord(data[i].date, Info.gran), KeyOf(data[i], Info.group)>> :
        i \in 1..Len(data)}

AllUndefined(row) == IsNaN(PrevOf(row)) /\ IsNaN(AbsOf(row)) /\ IsNaN(PctOf(row))

(* C4: the growth table holds exactly one row per aggregated (period,      *)
(* group) pair; in each group exactly one row, the chronologically first,  *)
(* has previous value, growth_abs and growth_pct all undefined, and every  *)
(* other row has a previous value and a growth_abs.                        *)
C4_MissingPredecessor ==
    IsGrowth =>
        /\ Len(result.value) = Cardinality(PeriodGroupPairs)
        /\ \A p \in PeriodGroupPairs :
              \E k \in Rows : RowOrd(Row(k)) = p[1] /\ KeyOf(Row(k), Info.group) = p[2]
        /\ \A k \in Rows :
              /\ Members(Row(k)) # {}
              /\ AllUndefined(Row(k)) <=> Earlier(Row(k)) = {}
              /\ Earlier(Row(k)) # {} => IsFin(PrevOf(Row(k))) /\ IsFin(AbsOf(Row(k)))
              /\ Cardinality({m \in Rows : SameGroup(Row(m), Row(k))
                                           /\ AllUndefined(Row(m))}) = 1

C4_Witness ==
    /\ IsGrowth
    /\ Info.group = GroupCM
    /\ Len(result.value) = 3
    /\ \E k \in Rows :
          /\ \A m \in Rows \ {k} : ~SameGroup(Row(m), Row(k))
          /\ AllUndefined(Row(k))

(* C10: mom_growth_pct of get_category_trends is never infinite; when the  *)
(* category's previous month total is zero it is undefined.                *)
C10_TrendsNoInfinity ==
    IsTrends =>
        \A k \in Rows :
            /\ ~IsInf(PctOf(Row(k)))
            /\ PrevOf(Row(k)) = Num(0) => IsNaN(PctOf(Row(k)))

(* the order the sort key of the granularity puts on two output rows       *)
SortKeyLess(r, q) ==
    CASE Info.gran = "year" -> r.year < q.year
      [] Info.gran = "quarter" -> r.quarter_id < q.quarter_id
      [] Info.gran = "month" -> LexLess(r.year_month, q.year_month)

CalendarMonths == {Date(y, m, 1) : y \in 2019..2022, m \in 1..12}

(* C5: the sort keys grow strictly with real time: the 'YYYY-MM' label    *)
(* (lexically) and year*10+quarter order a record against every calendar   *)
(* month as the calendar does; in every growth table the rows of one group *)
(* stand in strictly increasing calendar order, so that the previous value *)
(* of a row is the sum of the group's chronologically preceding period     *)
(* (Q4 of a year for Q1 of the next).                                      *)
C5_ChronologicalOrder ==
    /\ \A i \in 1..Len(processed_data), d \in CalendarMonths :
          LET r == processed_data[i]
          IN  /\ LexLess(r.year_month, StrfYm(d)) <=>
                    Ord(r.date, "month") < Ord(d, "month")
              /\ QuarterId(r.year, r.quarter) < QuarterId(d.year, QuarterOf(d.month))
                    <=> Ord(r.date, "quarter") < Ord(d, "quarter")
    /\ (IsGrowth \/ IsTrends) =>
        /\ \A k, m \in Rows :
              /\ SortKeyLess(Row(k), Row(m)) <=> RowOrd(Row(k)) < RowOrd(Row(m))
              /\ (k < m /\ SameGroup(Row(k), Row(m))) =>
                    RowOrd(Row(k)) < RowOrd(Row(m))
        /\ \A k \in Rows :
              IF Earlier(Row(k)) = {} THEN IsNaN(PrevOf(Row(k)))
              ELSE PrevOf(Row(k)) = Num(PredSum(Row(k)))

C5_Witness ==
    /\ result.op = "GrowthCalculator.calculate_mom_growth"
    /\ Len(result.value) = 3
    /\ Row(1).year_month = StrfYm(Date(2020, 9, 5))
    /\ Row(2).year_month = StrfYm(Date(2020, 10, 5))
    /\ Row(3).year_month = StrfYm(Date(2021, 1, 5))
    /\ Row(1).registrations = 100
    /\ Row(2).registrations = 150
    /\ PrevOf(Row(2)) = Num(100)
    /\ PrevOf(Row(3)) = Num(150)

(***************************************************************************)
(* SpecShare: the market share calculators, on frames with several         *)
(* manufacturers, categories and periods and with zero registrations.      *)
(***************************************************************************)
ShareRows == RowsOf(GrowthDates, Categories, Manufacturers, {0, 100})

InitShare == \E frame \in Frames(ShareRows) : Constructed(frame)

NextShare ==
    \/ get_market_share
    \/ GC_calculate_market_share

SpecShare == InitShare /\ [][NextShare]_vars

IsShare == /\ result.op \in {"get_market_share",
                             "GrowthCalculator.calculate_market_share"}
           /\ result.raised = ""

SharePeriodCol ==
    IF result.op = "get_market_share" THEN RankCol(result.args.period)
    ELSE result.args.period_col

ShareGroupCols == <<SharePeriodCol, "vehicle_category">>

TotalOf(row) ==
    IF result.op = "get_market_share" THEN row.category_total ELSE row.total_market

ShareGroup(row) ==
    {m \in Rows : KeyOf(Row(m), ShareGroupCols) = KeyOf(row, ShareGroupCols)}

RECURSIVE SumPct(_)
SumPct(S) ==
    IF S = {} THEN Num(0)
    ELSE LET k == CHOOSE x \in S : TRUE
         IN  FAdd(Row(k).market_share_pct, SumPct(S \ {k}))

(* C6: in the market share table category_total is the same on all rows    *)
(* of a (period, vehicle_category) group, equals the sum of the            *)
(* registrations of the manufacturers of the group, and the                *)
(* market_share_pct values of every group sum to 100.                      *)
C6_ShareSumsTo100 ==
    IsShare =>
        \A k \in Rows :
            /\ \A m \in ShareGroup(Row(k)) : TotalOf(Row(m)) = TotalOf(Row(k))
            /\ TotalOf(Row(k)) =
                  SumOver({i \in 1..Len(processed_data) :
                              KeyOf(processed_data[i], ShareGroupCols)
                              = KeyOf(Row(k), ShareGroupCols)}, processed_data)
            /\ SumPct(ShareGroup(Row(k))) = Num(100)

(* C7: no row of the market share table belongs to a group whose           *)
(* registrations sum to zero, and no row carries an undefined or infinite  *)
(* market_share_pct.                                                       *)
C7_ZeroTotalExcluded ==
    IsShare =>
        \A k \in Rows :
            /\ TotalOf(Row(k)) # 0
            /\ IsFin(Row(k).market_share_pct)

(* C9: no call changes raw_data, processed_data or the caller's frame,     *)
(* and a repeated call returns the value it returned before.               *)
C9_NoHiddenState ==
    [][/\ raw_data' = raw_data
       /\ processed_data' = processed_data
       /\ data' = data
       /\ raw_data' = data'
       /\ processed_data' = PrepareData(data')
       /\ (result'.op = result.op /\ result'.args = result.args)
             => result'.value = result.value]_vars

C9_Witness ==
    /\ result.op = "filter_data"
    /\ Len(processed_data) = 3
    /\ Len(result.value) = 1
    /\ raw_data = data
    /\ processed_data = PrepareData(data)

(***************************************************************************)
(* Unsupported period                                                      *)
(***************************************************************************)
PeriodOps == {"aggregate_by_period", "get_manufacturer_rankings",
              "get_market_share"}

(* C11: aggregate_by_period, get_manufacturer_rankings and                 *)
(* get_market_share called with a period other than 'month', 'quarter' or  *)
(* 'year' raise the period error, return no value and leave data, raw_data *)
(* and processed_data as they were; called with one of the three supported *)
(* periods they raise nothing.                                             *)
C11_UnsupportedPeriod ==
    [][result'.op \in PeriodOps =>
          IF result'.args.period \in {"month", "quarter", "year"}
          THEN result'.raised = ""
          ELSE /\ result'.raised = PeriodError
               /\ result'.value = <<>>
               /\ UNCHANGED <<data, raw_data, processed_data>>]_vars

C11_Witness ==
    /\ result.op = "get_market_share"
    /\ result.args.period = "week"
    /\ result.raised = PeriodError
    /\ Len(processed_data) = 2

(***************************************************************************)
(* The static statistics functions of calculations.py, called on a series  *)
(* or a growth table that the caller holds in `data`; no processor is      *)
(* involved.                                                               *)
(***************************************************************************)
MaxSeries == 4

Handed(input) ==
    /\ data = input
    /\ raw_data = <<>>
    /\ processed_data = <<>>
    /\ result = [op |-> "", args |-> NoArgs, value |-> <<>>, raised |-> ""]
    /\ growth_metrics = EmptyBag
    /\ vehicle_registrations = EmptyBag

MinPeriods == {2, 3}

detect_trend ==
    \E min_periods \in MinPeriods :
        /\ result' = Ret("detect_trend", [min_periods |-> min_periods],
                         detect_trend_ret(data, min_periods))
        /\ UNCHANGED <<data, raw_data, processed_data, growth_metrics,
                     vehicle_registrations>>

Windows == {1, 2, 3}

calculate_moving_average ==
    \E window \in Windows :
        /\ result' = Ret("calculate_moving_average", [window |-> window],
                         calculate_moving_average_ret(data, window))
        /\ UNCHANGED <<data, raw_data, processed_data, growth_metrics,
                     vehicle_registrations>>

calculate_growth_consistency ==
    /\ result' = Ret("calculate_growth_consistency", NoArgs,
                     calculate_growth_consistency_ret(data))
    /\ UNCHANGED <<data, raw_data, processed_data, growth_metrics,
                     vehicle_registrations>>

calculate_growth_benchmarks ==
    /\ result' = Ret("calculate_growth_benchmarks",
                     [growth_col |-> "yoy_growth_pct"],
                     calculate_growth_benchmarks_ret(data, "yoy_growth_pct"))
    /\ UNCHANGED <<data, raw_data, processed_data, growth_metrics,
                     vehicle_registrations>>

SeriesOf(ints) == [i \in 1..Len(ints) |-> Num(ints[i])]

SeriesValues == {NaN, Num(-10), Num(0), Num(10)}

SeriesExamples == {SeriesOf(<<100, 110, 120, 130, 140>>),
                   SeriesOf(<<100, 101, 99, 100, 101>>),
                   SeriesOf(<<10, 20, 30, 40, 50>>)}

SeriesInputs ==
    UNION {[1..n -> SeriesValues] : n \in 0..MaxSeries} \cup SeriesExamples

InitSeries == \E series \in SeriesInputs : Handed(series)

NextSeries ==
    \/ detect_trend
    \/ calculate_moving_average
    \/ calculate_growth_consistency

SpecSeries == InitSeries /\ [][NextSeries]_vars

GrowthTableOf(values) ==
    [i \in 1..Len(values) |->
        [manufacturer |-> "A", yoy_growth_pct |-> values[i]]]

BenchValues == {NaN, Num(5), Num(10), Num(20)}

BenchTables ==
    {GrowthTableOf(values) :
        values \in UNION {[1..n -> BenchValues] : n \in 0..MaxSeries}
                   \cup {SeriesOf(<<5, 10, 15, 20, 25>>)}}

InitBench == \E table \in BenchTables : Handed(table)

NextBench == calculate_growth_benchmarks

SpecBench == InitBench /\ [][NextBench]_vars

(***************************************************************************)
(* Empty input                                                             *)
(***************************************************************************)
NoGrowthValue ==
    \A i \in 1..Len(data) : IsNaN(data[i][result.args.growth_col])

(* C12: get_summary_stats on a processor built from zero records returns   *)
(* a summary (record count 0, sum 0) and raises nothing, and               *)
(* calculate_growth_benchmarks on a growth table without a non-missing     *)
(* growth value returns the empty result and raises nothing.               *)
C12_EmptyInputNoError ==
    /\ (result.op = "get_summary_stats" /\ processed_data = <<>>) =>
          /\ result.raised = ""
          /\ result.value.total_records = 0
          /\ result.value.total_registrations = 0
    /\ (result.op = "calculate_growth_benchmarks" /\ NoGrowthValue) =>
          /\ result.raised = ""
          /\ result.value = <<>>

(***************************************************************************)
(* Filtering                                                               *)
(***************************************************************************)
(* C13: filter_data returns exactly the records r of processed_data, in    *)
(* their order and unchanged, with start_date <= r.date <= end_date,       *)
(* r.vehicle_category in the categories list and r.manufacturer in the     *)
(* manufacturers list, where a criterion that was not supplied (None)      *)
(* imposes nothing; without any criterion the result is processed_data.    *)
C13_FilterExact ==
    result.op = "filter_data" =>
        LET a == result.args
            Keep(r) ==
                /\ a.start_date.given => ~DateLess(r.date, a.start_date.v)
                /\ a.end_date.given => ~DateLess(a.end_date.v, r.date)
                /\ a.vehicle_categories.given =>
                       r.vehicle_category \in Range(a.vehicle_categories.v)
                /\ a.manufacturers.given =>
                       r.manufacturer \in Range(a.manufacturers.v)
        IN  /\ result.raised = ""
            /\ result.value = SelectSeq(processed_data, Keep)
            /\ (~a.start_date.given /\ ~a.end_date.given
                /\ ~a.vehicle_categories.given /\ ~a.manufacturers.given)
                   => result.value = processed_data

(***************************************************************************)
(* Trend classification                                                    *)
(***************************************************************************)
IsTrend == result.op = "detect_trend"

NonMissing == SelectSeq(data, LAMBDA x : ~IsNaN(x))

\* Slope of the least squares line through (0, y[1]) .. (n-1, y[n]):
\* sum (x - mx)(y - my) / sum (x - mx)^2, mx and my the means.
LeastSquaresSlope(y) ==
    LET n == Len(y)
        mx == Fin(n - 1, 2)
        my == FDiv(FSum(y), Num(n))
        dx(i) == FSub(Num(i - 1), mx)
    IN  FDiv(FSum([i \in 1..n |-> FMul(dx(i), FSub(y[i], my))]),
             FSum([i \in 1..n |-> FMul(dx(i), dx(i))]))

FivePercentOfMean(y) == FDiv(FMul(Num(5), FDiv(FSum(y), Num(Len(y)))), Num(100))

TrendExamplesHold ==
    /\ data = SeriesOf(<<100, 110, 120, 130, 140>>) => result.value = "increasing"
    /\ data = SeriesOf(<<100, 101, 99, 100, 101>>) => result.value = "stable"

(* C14 as stated: with at least min_periods non-missing values the result  *)
(* is 'increasing' if the least squares slope is greater than 5% of the    *)
(* mean, 'decreasing' if it is less than -5% of the mean, else 'stable',   *)
(* whatever the sign of the mean.                                          *)
C14_AsStated ==
    (IsTrend /\ Len(NonMissing) >= result.args.min_periods) =>
        LET slope == LeastSquaresSlope(NonMissing)
            t == FivePercentOfMean(NonMissing)
        IN  /\ result.value = IF FLess(t, slope) THEN "increasing"
                              ELSE IF FLess(slope, FNeg(t)) THEN "decreasing"
                              ELSE "stable"
            /\ TrendExamplesHold

(* C14: with at least min_periods non-missing values the result is         *)
(* 'increasing' if the least squares slope over x = 0..n-1 of the          *)
(* non-missing values is greater than 5% of the absolute value of their    *)
(* mean, 'decreasing' if it is less than minus that amount, and 'stable'   *)
(* otherwise; [100,110,120,130,140] is 'increasing' and                    *)
(* [100,101,99,100,101] is 'stable'.                                       *)
C14_TrendThresholds ==
    (IsTrend /\ Len(NonMissing) >= result.args.min_periods) =>
        LET slope == LeastSquaresSlope(NonMissing)
            t == FAbs(FivePercentOfMean(NonMissing))
        IN  /\ result.value = IF FLess(t, slope) THEN "increasing"
                              ELSE IF FLess(slope, FNeg(t)) THEN "decreasing"
                              ELSE "stable"
            /\ TrendExamplesHold

C14_Witness ==
    /\ IsTrend
    /\ Len(NonMissing) >= result.args.min_periods
    /\ Len(NonMissing) < Len(data)
    /\ FLess(FSum(NonMissing), Num(0))
    /\ result.value = "stable"

(* C15: detect_trend returns 'insufficient_data' exactly when the series   *)
(* holds fewer than min_periods non-missing values (NaN entries do not     *)
(* count), the empty series included, and it raises nothing.               *)
C15_InsufficientData ==
    IsTrend =>
        /\ result.raised = ""
        /\ result.value = "insufficient_data"
              <=> Len(NonMissing) < result.args.min_periods

C15_Witness ==
    /\ IsTrend
    /\ result.value = "insufficient_data"
    /\ Len(data) >= result.args.min_periods
    /\ Len(NonMissing) < result.args.min_periods

(***************************************************************************)
(* Moving average                                                          *)
(***************************************************************************)
IsMovingAverage == result.op = "calculate_moving_average"

\* The window centered on position i: window \div 2 positions before i
\* (one less after i when the window is even).
WindowLo(i) == i - (result.args.window \div 2)

WindowHi(i) == i + ((result.args.window - 1) \div 2)

RECURSIVE SumFromTo(_, _)
SumFromTo(lo, hi) ==
    IF lo > hi THEN Num(0) ELSE FAdd(data[lo], SumFromTo(lo + 1, hi))

(* C16: calculate_moving_average returns one value per position of the     *)
(* series; at a position whose centered window lies inside the series the  *)
(* value times the window size is the sum of the window's values           *)
(* (undefined if one of them is missing), and at a position whose window   *)
(* passes either end the value is undefined; [10,20,30,40,50] with         *)
(* window 3 gives [undefined, 20, 30, 40, undefined].                      *)
C16_CenteredWindow ==
    IsMovingAverage =>
        /\ Len(result.value) = Len(data)
        /\ \A i \in 1..Len(data) :
              IF WindowLo(i) < 1 \/ WindowHi(i) > Len(data)
              THEN IsNaN(result.value[i])
              ELSE FMul(result.value[i], Num(result.args.window))
                       = SumFromTo(WindowLo(i), WindowHi(i))
        /\ (data = SeriesOf(<<10, 20, 30, 40, 50>>) /\ result.args.window = 3)
              => result.value = <<NaN, Num(20), Num(30), Num(40), NaN>>

C16_Witness ==
    /\ IsMovingAverage
    /\ result.args.window = 3
    /\ Len(data) = 4
    /\ IsNaN(result.value[1])
    /\ result.value[2] = Fin(10, 3)
    /\ IsFin(result.value[3])
    /\ IsNaN(result.value[4])

(***************************************************************************)
(* Growth consistency                                                      *)
(***************************************************************************)
IsConsistency == result.op = "calculate_growth_consistency"

ConsistencyFields == {"mean_growth", "std_growth", "coefficient_variation",
                      "positive_periods", "consistency_score"}

\* 0 <= x <= 1; 1 / (1 + root) lies in it for every root.
InUnitInterval(x) ==
    \/ x.k = "recip1p"
    \/ IsFin(x) /\ 0 <= x.n /\ x.n <= x.d

(* C17: calculate_growth_consistency returns the five fields undefined     *)
(* exactly when fewer than 2 growth values are non-missing; otherwise      *)
(* coefficient_variation = std_growth / |mean_growth| (+infinity when the  *)
(* mean is zero and the standard deviation is not),                        *)
(* consistency_score = 1 / (1 + coefficient_variation), which is 0 for an  *)
(* infinite coefficient, and the score lies in [0, 1].                     *)
C17_Consistency ==
    IsConsistency =>
        LET v == result.value
        IN  /\ (\A f \in ConsistencyFields : IsNaN(v[f]))
                   <=> Len(NonMissing) < 2
            /\ Len(NonMissing) >= 2 =>
                  /\ v.coefficient_variation
                         = RootOver(v.std_growth, FAbs(v.mean_growth))
                  /\ v.consistency_score
                         = OneOverOnePlus(v.coefficient_variation)
                  /\ InUnitInterval(v.consistency_score)
                  /\ (v.mean_growth.n = 0 /\ v.std_growth.n # 0)
                         => /\ v.coefficient_variation = Inf(1)
                            /\ v.consistency_score = Num(0)

(***************************************************************************)
(* Percentile benchmarks                                                   *)
(***************************************************************************)
IsBenchmarks == result.op = "calculate_growth_benchmarks"

GrowthValues ==
    LET rows == SelectSeq(data, LAMBDA r : ~IsNaN(r[result.args.growth_col]))
    IN  [i \in 1..Len(rows) |-> rows[i][result.args.growth_col]]

FLeq(a, b) == a = b \/ FLess(a, b)

\* Number of values below x, and number of values up to x.
Below(x) == Cardinality({i \in 1..Len(GrowthValues) : FLess(GrowthValues[i], x)})

UpTo(x) == Cardinality({i \in 1..Len(GrowthValues) : FLeq(GrowthValues[i], x)})

\* v is the q-th percentile by linear interpolation: with n values the
\* percentile sits at rank h = 1 + (n - 1) * q / 100 of the ascending
\* order; for the order statistics a at rank k and b at rank k + 1 with
\* k <= h <= k + 1, v = a + (h - k) * (b - a).
IsInterpolated(v, q) ==
    LET n == Len(GrowthValues)
        Ranked(x, k) == Below(x) < k /\ k <= UpTo(x)
    IN  \E k \in 1..n :
            /\ 100 * (k - 1) <= (n - 1) * q
            /\ (n - 1) * q <= 100 * k
            /\ \E i, j \in 1..n :
                  LET a == GrowthValues[i]
                      b == GrowthValues[j]
                  IN  /\ Ranked(a, k)
                      /\ (k < n => Ranked(b, k + 1))
                      /\ (k = n => b = a)
                      /\ FMul(FSub(v, a), Num(100))
                            = FMul(Num((n - 1) * q - 100 * (k - 1)), FSub(b, a))

(* C18: on a growth table with a non-missing growth value,                 *)
(* calculate_growth_benchmarks returns p25, median, p75 and p90 as the     *)
(* linear interpolation between the order statistics of the non-missing    *)
(* growth values, missing values left out of the ranking, with             *)
(* min <= p25 <= median <= p75 <= p90 <= max; for [5,10,15,20,25] the      *)
(* median is 15, p25 is 10 and p75 is 20.                                  *)
C18_Percentiles ==
    (IsBenchmarks /\ GrowthValues # <<>>) =>
        LET v == result.value
        IN  /\ IsInterpolated(v.p25, 25)
            /\ IsInterpolated(v.median, 50)
            /\ IsInterpolated(v.p75, 75)
            /\ IsInterpolated(v.p90, 90)
            /\ \A i \in 1..Len(GrowthValues) :
                  FLeq(v.min, GrowthValues[i]) /\ FLeq(GrowthValues[i], v.max)
            /\ \E i, j \in 1..Len(GrowthValues) :
                  v.min = GrowthValues[i] /\ v.max = GrowthValues[j]
            /\ FLeq(v.min, v.p25) /\ FLeq(v.p25, v.median)
            /\ FLeq(v.median, v.p75) /\ FLeq(v.p75, v.p90)
            /\ FLeq(v.p90, v.max)
            /\ GrowthValues = SeriesOf(<<5, 10, 15, 20, 25>>) =>
                  v.median = Num(15) /\ v.p25 = Num(10) /\ v.p75 = Num(20)

C18_Witness ==
    /\ IsBenchmarks
    /\ Len(data) = 4
    /\ Len(GrowthValues) = 3
    /\ result.value.min = Num(5)
    /\ result.value.max = Num(20)
    /\ result.value.p25 = Fin(15, 2)
    /\ result.value.median = Num(10)
    /\ result.value.p90 = Num(18)

(***************************************************************************)
(* SpecPrepare: the dashboard filters the processor's records and builds a *)
(* new VehicleDataProcessor from the filtered, already derived records     *)
(* (app.py: filtered_processor = VehicleDataProcessor(filtered_data));     *)
(* it stops before that when the filter leaves no record.                  *)
(***************************************************************************)
VehicleDataProcessor_from_filtered ==
    /\ result.op = "filter_data"
    /\ result.raised = ""
    /\ result.value # <<>>
    /\ data' = result.value
    /\ raw_data' = result.value
    /\ processed_data' = PrepareData(result.value)
    /\ result' = [op |-> "__init__", args |-> NoArgs, value |-> <<>>,
                  raised |-> ""]
    /\ UNCHANGED <<growth_metrics, vehicle_registrations>>

PrepareRows == RowsOf({Date(2020, 3, 31), Date(2020, 12, 1), Date(2021, 1, 5)},
                      {"4W"}, Manufacturers, {100})

InitPrepare == \E frame \in Frames(PrepareRows) : Constructed(frame)

NextPrepare ==
    \/ filter_data
    \/ VehicleDataProcessor_from_filtered

SpecPrepare == InitPrepare /\ [][NextPrepare]_vars

FourDigits(y) == <<48 + (y \div 1000), 48 + ((y \div 100) % 10),
                   48 + ((y \div 10) % 10), 48 + (y % 10)>>

DerivedCols == {"year", "month", "quarter", "year_quarter", "year_month"}

(* C19: processed_data holds one derived record per record handed to the   *)
(* processor, in the same order, with the input columns unchanged, year    *)
(* the calendar year, quarter 1 for January-March up to 4 for              *)
(* October-December, year_quarter 'YYYY-Qn' and year_month 'YYYY-MM' with  *)
(* a two-digit month; a processor built from records that already carry    *)
(* the derived columns derives the same values again.                      *)
C19_PeriodKeys ==
    /\ Len(processed_data) = Len(data)
    /\ \A i \in 1..Len(data) :
          LET r == processed_data[i]
              d == data[i].date
          IN  /\ \A c \in DOMAIN data[i] \ DerivedCols : r[c] = data[i][c]
              /\ r.year = d.year
              /\ r.month = d.month
              /\ r.quarter \in 1..4
              /\ 3 * (r.quarter - 1) < d.month /\ d.month <= 3 * r.quarter
              /\ r.year_quarter = FourDigits(d.year) \o <<45, 81, 48 + r.quarter>>
              /\ r.year_month = FourDigits(d.year)
                     \o <<45, 48 + (d.month \div 10), 48 + (d.month % 10)>>
              /\ DerivedCols \subseteq DOMAIN data[i] => r = data[i]

C19_Witness ==
    /\ result.op = "__init__"
    /\ Len(data) = 2
    /\ DerivedCols \subseteq DOMAIN data[1]
    /\ data[1].date = Date(2020, 3, 31)
    /\ processed_data[1].quarter = 1
    /\ processed_data[2].year_month = <<50, 48, 50, 48, 45, 49, 50>>

(***************************************************************************)
(* DatabaseManager.store_growth_metrics.  The table is a bag of rows with  *)
(* the seven columns the statement writes; id and calculated_at are        *)
(* assigned by SQLite and read by no statement.  INSERT OR REPLACE deletes *)
(* the rows that conflict on                                               *)
(* UNIQUE(period_type, period_value, vehicle_category, manufacturer)       *)
(* and inserts the new row.                                                *)
(***************************************************************************)
MetricKeyCols == {"period_type", "period_value", "vehicle_category",
                  "manufacturer"}

MetricKey(row) == [c \in MetricKeyCols |-> row[c]]

GrowthColsOf(period_type) ==
    IF period_type = "yearly"
    THEN [period_col |-> "year", growth_pct_col |-> "yoy_growth_pct",
          growth_abs_col |-> "yoy_growth_abs"]
    ELSE IF period_type = "quarterly"
    THEN [period_col |-> "quarter_id", growth_pct_col |-> "qoq_growth_pct",
          growth_abs_col |-> "qoq_growth_abs"]
    ELSE [period_col |-> "month", growth_pct_col |-> "mom_growth_pct",
          growth_abs_col |-> "mom_growth_abs"]

DataToInsert(growth_data, period_type) ==
    LET cols == GrowthColsOf(period_type)
        kept == SelectSeq(growth_data, LAMBDA row :
                    /\ cols.growth_pct_col \in DOMAIN row
                    /\ ~IsNaN(row[cols.growth_pct_col]))
    IN  [i \in 1..Len(kept) |->
            [period_type |-> period_type,
             period_value |-> IntToStr(kept[i][cols.period_col]),
             vehicle_category |-> kept[i].vehicle_category,
             manufacturer |-> kept[i].manufacturer,
             registrations |-> kept[i].registrations,
             growth_rate_pct |-> kept[i][cols.growth_pct_col],
             growth_rate_abs |->
                 IF cols.growth_abs_col \in DOMAIN kept[i]
                 THEN kept[i][cols.growth_abs_col] ELSE Num(0)]]

InsertPlain(table, record) == table (+) SetToBag({record})

InsertOrReplace(table, record) ==
    LET kept == {row \in DOMAIN table : MetricKey(row) # MetricKey(record)}
    IN  [row \in kept |-> table[row]] (+) SetToBag({record})

RECURSIVE InsertAll(_, _)
InsertAll(table, records) ==
    IF records = <<>> THEN table
    ELSE InsertAll(InsertOrReplace(table, Head(records)), Tail(records))

PeriodTypes == {"yearly", "quarterly", "monthly"}

\* The growth tables main.py stores: calculate_yoy_growth() and
\* calculate_qoq_growth() of a processor.
StoreRows == RowsOf({Date(2021, 10, 5), Date(2022, 1, 5)}, {"4W"}, {"A"},
                    {100})

\* and, as the method takes any frame, two yearly tables in one frame.
YearlyPairs ==
    LET tables == {calculate_yoy_growth_ret(PrepareData(frame)) :
                      frame \in [1..MaxLen -> StoreRows]}
    IN  {t \o u : t, u \in tables}

GrowthTables ==
    {calculate_yoy_growth_ret(PrepareData(frame)) : frame \in Frames(StoreRows)}
    \cup
    {calculate_qoq_growth_ret(PrepareData(frame)) : frame \in Frames(StoreRows)}
    \cup YearlyPairs

store_growth_metrics ==
    \E growth_data \in GrowthTables, period_type \in PeriodTypes :
        LET data_to_insert == DataToInsert(growth_data, period_type)
        IN  /\ growth_metrics' = IF growth_data = <<>> THEN growth_metrics
                                 ELSE InsertAll(growth_metrics, data_to_insert)
            /\ result' = Ret("store_growth_metrics",
                             [growth_data |-> growth_data,
                              period_type |-> period_type],
                             Len(data_to_insert))
            /\ UNCHANGED <<data, raw_data, processed_data,
                           vehicle_registrations>>

InitStore == Handed(<<>>)

NextStore == store_growth_metrics

SpecStore == InitStore /\ [][NextStore]_vars

(***************************************************************************)
(* Stored growth metrics                                                   *)
(***************************************************************************)
StoredRows == BagToSet(growth_metrics)

StoredKeys == {MetricKey(row) : row \in StoredRows}

OneRowPerKey ==
    /\ \A row \in StoredRows : CopiesIn(row, growth_metrics) = 1
    /\ \A row, other \in StoredRows :
          MetricKey(row) = MetricKey(other) => row = other

\* What a store_growth_metrics call with these arguments has to leave in
\* the table: for every key it writes, the last record it writes for it.
LastWrites(args) ==
    LET records == DataToInsert(args.growth_data, args.period_type)
    IN  {records[i] : i \in {j \in 1..Len(records) :
            \A k \in (j + 1)..Len(records) :
                MetricKey(records[k]) # MetricKey(records[j])}}

(* C20: the growth_metrics table never holds two rows with the same        *)
(* (period_type, period_value, vehicle_category, manufacturer); a          *)
(* store_growth_metrics call leaves, for every key it writes, exactly the  *)
(* last record written for that key, keeps the rows of all other keys and  *)
(* adds a row only for a key that was not stored before; storing the       *)
(* table of the previous call again leaves the table as it is.             *)
C20_LastWriteWins ==
    /\ []OneRowPerKey
    /\ [][result'.op = "store_growth_metrics" =>
            LET written == LastWrites(result'.args)
                keys == {MetricKey(record) : record \in written}
            IN  /\ \A record \in written :
                      CopiesIn(record, growth_metrics') = 1
                /\ \A row \in StoredRows :
                      MetricKey(row) \notin keys =>
                          CopiesIn(row, growth_metrics') = 1
                /\ BagCardinality(growth_metrics')
                       = Cardinality(StoredKeys \cup keys)
                /\ (result.op = "store_growth_metrics"
                    /\ result'.args = result.args)
                       => growth_metrics' = growth_metrics]_vars

C20_Witness ==
    /\ result.op = "store_growth_metrics"
    /\ result.args.period_type = "yearly"
    /\ result.value = 2
    /\ BagCardinality(growth_metrics) = 2
    /\ LET records == DataToInsert(result.args.growth_data, "yearly")
       IN  /\ MetricKey(records[1]) = MetricKey(records[2])
           /\ records[1].registrations = 100
           /\ records[2].registrations = 200
           /\ records[2].period_value = <<50, 48, 50, 50>>
           /\ records[2].growth_rate_pct = Num(100)
           /\ records[2] \in StoredRows
    /\ \E row \in StoredRows : row.period_type = "quarterly"

\* A growth table handed over under the period type it was computed for.
IsStoreOfOwnType ==
    /\ result.op = "store_growth_metrics"
    /\ \A i \in 1..Len(result.args.growth_data) :
          LET cols == GrowthColsOf(result.args.period_type)
          IN  {cols.period_col, cols.growth_pct_col}
                  \subseteq DOMAIN result.args.growth_data[i]

(* C21: every growth record handed to store_growth_metrics under its own   *)
(* period type has a stored row under its (period_type, period_value,      *)
(* vehicle_category, manufacturer) key afterwards, the records with an     *)
(* undefined growth included, and the call returns the number of records.  *)
C21_EveryRecordStored ==
    IsStoreOfOwnType =>
        LET growth_data == result.args.growth_data
            cols == GrowthColsOf(result.args.period_type)
        IN  /\ result.value = Len(growth_data)
            /\ \A i \in 1..Len(growth_data) :
                  [period_type |-> result.args.period_type,
                   period_value |-> IntToStr(growth_data[i][cols.period_col]),
                   vehicle_category |-> growth_data[i].vehicle_category,
                   manufacturer |-> growth_data[i].manufacturer]
                      \in StoredKeys

(***************************************************************************)
(* DatabaseManager.insert_vehicle_data.  The table is a bag of rows with   *)
(* the seven columns the statements write.  A record is a row of the frame *)
(* the scraper builds: date, year, the quarter label 'Q1'..'Q4', the month *)
(* label '%Y-%m', category, manufacturer and registrations.  The date is   *)
(* stored as '%Y-%m-%d' text.  INSERT OR IGNORE skips a record that        *)
(* conflicts on UNIQUE(date, vehicle_category, manufacturer); the plain    *)
(* INSERT of to_sql(if_exists='append', method='multi') is one statement,  *)
(* which fails as a whole with IntegrityError on a conflict, and the       *)
(* exception leaves the `with` block, which rolls back, and is re-raised.  *)
(***************************************************************************)
QuarterLabel(month) == <<81>> \o IntToStr(((month - 1) \div 3) + 1)

SampleRecord(date, category, manufacturer, registrations) ==
    [date |-> date, year |-> date.year, quarter |-> QuarterLabel(date.month),
     month |-> StrfYm(date), vehicle_category |-> category,
     manufacturer |-> manufacturer, registrations |-> registrations]

required_columns == {"date", "year", "quarter", "month", "vehicle_category",
                     "manufacturer", "registrations"}

MissingColumnsError == "ValueError: Missing required columns"

IntegrityError == "IntegrityError: UNIQUE constraint failed"

VehicleKeyCols == {"date", "vehicle_category", "manufacturer"}

VehicleKey(row) == [c \in VehicleKeyCols |-> row[c]]

VehicleDataToInsert(df) ==
    [i \in 1..Len(df) |->
        [c \in required_columns |->
            IF c = "date" THEN StrfYmd(df[i].date) ELSE df[i][c]]]

Conflicts(table, record) ==
    \E row \in BagToSet(table) : VehicleKey(row) = VehicleKey(record)

InsertOrIgnoreReplacing(table, record) ==
    LET kept == {row \in DOMAIN table : VehicleKey(row) # VehicleKey(record)}
    IN  [row \in kept |-> table[row]] (+) SetToBag({record})

InsertOrIgnore(table, record) ==
    IF Conflicts(table, record) THEN table
    ELSE table (+) SetToBag({record})

\* The loop of lines 128-137: conn.total_changes counts the rows changed
\* since the connection was opened, and is added after every statement.
RECURSIVE InsertIgnoringLoop(_, _, _, _)
InsertIgnoringLoop(table, records, total_changes, rows_affected) ==
    IF records = <<>>
    THEN [table |-> table, rows_affected |-> rows_affected]
    ELSE IF Conflicts(table, Head(records))
    THEN InsertIgnoringLoop(InsertOrIgnore(table, Head(records)),
                            Tail(records), total_changes,
                            rows_affected + total_changes)
    ELSE InsertIgnoringLoop(InsertOrIgnore(table, Head(records)),
                            Tail(records), total_changes + 1,
                            rows_affected + total_changes + 1)

\* to_sql(..., if_exists='append', method='multi'): one INSERT statement.
ToSqlAppend(table, records) ==
    LET conflict ==
            \/ \E i \in 1..Len(records) : Conflicts(table, records[i])
            \/ \E i, j \in 1..Len(records) :
                  i < j /\ VehicleKey(records[i]) = VehicleKey(records[j])
    IN  IF conflict
        THEN [table |-> table, raised |-> IntegrityError, rows_affected |-> 0]
        ELSE [table |-> table (+) SetToBag(Range(records)), raised |-> "",
              rows_affected |-> Len(records)]

InsertRows == {SampleRecord(Date(2021, 10, 5), "4W", "A", 100),
               SampleRecord(Date(2021, 10, 5), "4W", "A", 200),
               SampleRecord(Date(2022, 1, 5), "4W", "A", 100)}

\* Frames of scraper records, and one frame without the derived columns.
InsertFrames ==
    Frames(InsertRows)
    \cup {<<[date |-> Date(2021, 10, 5), vehicle_category |-> "4W",
             manufacturer |-> "A", registrations |-> 100]>>}

insert_vehicle_data ==
    \E df \in InsertFrames, replace \in BOOLEAN :
        LET args == [df |-> df, replace |-> replace]
            missing_columns ==
                \E i \in 1..Len(df) : ~(required_columns \subseteq DOMAIN df[i])
        IN  /\ vehicle_registrations' =
                  IF missing_columns THEN vehicle_registrations
                  ELSE IF replace
                  THEN ToSqlAppend(vehicle_registrations,
                                   VehicleDataToInsert(df)).table
                  ELSE InsertIgnoringLoop(vehicle_registrations,
                                          VehicleDataToInsert(df), 0, 0).table
            /\ result' =
                  IF missing_columns
                  THEN Raise("insert_vehicle_data", args, MissingColumnsError)
                  ELSE IF replace
                  THEN LET done == ToSqlAppend(vehicle_registrations,
                                               VehicleDataToInsert(df))
                       IN  IF done.raised # ""
                           THEN Raise("insert_vehicle_data", args, done.raised)
                           ELSE Ret("insert_vehicle_data", args,
                                    done.rows_affected)
                  ELSE Ret("insert_vehicle_data", args,
                           InsertIgnoringLoop(vehicle_registrations,
                                              VehicleDataToInsert(df), 0, 0)
                               .rows_affected)
            /\ UNCHANGED <<data, raw_data, processed_data, growth_metrics>>

InitInsert == Handed(<<>>)

NextInsert == insert_vehicle_data

SpecInsert == InitInsert /\ [][NextInsert]_vars

(***************************************************************************)
(* Stored vehicle registrations                                            *)
(***************************************************************************)
InsertedRows == BagToSet(vehicle_registrations)

InsertedKeys == {VehicleKey(row) : row \in InsertedRows}

OneRowPerVehicleKey ==
    /\ \A row \in InsertedRows : CopiesIn(row, vehicle_registrations) = 1
    /\ \A row, other \in InsertedRows :
          VehicleKey(row) = VehicleKey(other) => row = other

\* The first record of a batch under each key of the batch.
FirstWrites(records) ==
    {records[i] : i \in {j \in 1..Len(records) :
        \A k \in 1..(j - 1) : VehicleKey(records[k]) # VehicleKey(records[j])}}

(* C22: vehicle_registrations never holds two rows with the same (date,    *)
(* vehicle_category, manufacturer); an insert_vehicle_data call with       *)
(* replace=False raises nothing, keeps every stored row as it is, and for  *)
(* a key not stored before stores the first record of the batch with that  *)
(* key, and nothing else.                                                  *)
C22_FirstInsertKept ==
    /\ []OneRowPerVehicleKey
    /\ [][(/\ result'.op = "insert_vehicle_data"
           /\ ~result'.args.replace
           /\ result'.raised # MissingColumnsError) =>
            LET records == VehicleDataToInsert(result'.args.df)
            IN  /\ result'.raised = ""
                /\ \A row \in InsertedRows :
                      CopiesIn(row, vehicle_registrations') = 1
                /\ \A record \in FirstWrites(records) :
                      VehicleKey(record) \notin InsertedKeys =>
                          CopiesIn(record, vehicle_registrations') = 1
                /\ BagCardinality(vehicle_registrations')
                       = Cardinality(InsertedKeys
                            \cup {VehicleKey(record) : record \in Range(records)})
          ]_<<vehicle_registrations, result.op, result.args, result.raised>>

C22_Witness ==
    /\ result.op = "insert_vehicle_data"
    /\ ~result.args.replace
    /\ result.raised = ""
    /\ result.args.df = <<SampleRecord(Date(2021, 10, 5), "4W", "A", 200),
                          SampleRecord(Date(2022, 1, 5), "4W", "A", 100),
                          SampleRecord(Date(2021, 10, 5), "4W", "A", 100)>>
    /\ BagCardinality(vehicle_registrations) = 2
    /\ \E row \in InsertedRows :
          /\ row.date = <<50, 48, 50, 49, 45, 49, 48, 45, 48, 53>>
          /\ row.registrations = 100
    /\ \E row \in InsertedRows :
          /\ row.date = <<50, 48, 50, 50, 45, 48, 49, 45, 48, 53>>
          /\ row.registrations = 100

(* C23: an insert_vehicle_data call with replace=True whose batch holds a  *)
(* record with the key of a stored row (the keys of the batch differing    *)
(* from each other) raises nothing and leaves, for every record of the     *)
(* batch, exactly one row under its key, carrying the incoming values.     *)
C23_ReplaceExisting ==
    [][(/\ result'.op = "insert_vehicle_data"
        /\ result'.args.replace
        /\ result'.raised # MissingColumnsError
        /\ LET records == VehicleDataToInsert(result'.args.df)
           IN  /\ FirstWrites(records) = Range(records)
               /\ Cardinality(Range(records)) = Len(records)
               /\ \E record \in Range(records) :
                     VehicleKey(record) \in InsertedKeys) =>
          /\ result'.raised = ""
          /\ OneRowPerVehicleKey'
          /\ \A record \in Range(VehicleDataToInsert(result'.args.df)) :
                CopiesIn(record, vehicle_registrations') = 1
      ]_<<vehicle_registrations, result.op, result.args, result.raised>>

(* C24: an insert_vehicle_data call with replace=False returns the number  *)
(* of rows it inserted, that is the number of keys of the batch that were  *)
(* not stored before.                                                      *)
C24_ReturnsInserted ==
    [][(/\ result'.op = "insert_vehicle_data"
        /\ ~result'.args.replace
        /\ result'.raised = "") =>
          /\ result'.value = BagCardinality(vehicle_registrations')
                             - BagCardinality(vehicle_registrations)
          /\ result'.value =
                Cardinality({VehicleKey(record) :
                    record \in Range(VehicleDataToInsert(result'.args.df))}
                  \ InsertedKeys)
      ]_<<vehicle_registrations, result.op, result.args, result.raised>>

(***************************************************************************)
(* SpecGap: the yearly and quarterly growth calls on frames of one group   *)
(* whose records leave out a calendar year (2021) and a quarter (2020-Q2). *)
(***************************************************************************)
GapRows == RowsOf({Date(2020, 2, 5), Date(2020, 8, 5), Date(2022, 1, 5)},
                  {"4W"}, {"A"}, {100, 150})

InitGap == \E frame \in Frames(GapRows) : Constructed(frame)

NextGap ==
    \/ calculate_yoy_growth
    \/ calculate_qoq_growth
    \/ GC_calculate_yoy_growth
    \/ GC_calculate_qoq_growth

SpecGap == InitGap /\ [][NextGap]_vars

IsYearOrQuarterGrowth == IsGrowth /\ Info.gran \in {"year", "quarter"}

\* The records of the row's group in the calendar period right before the
\* row's period.
CalendarPred(row) ==
    {i \in Earlier(row) : Ord(data[i].date, Info.gran) = RowOrd(row) - 1}

(* C25 as stated: in a yearly (quarterly) growth table the previous value  *)
(* of a group's row is the group's total of the calendar year (quarter)    *)
(* right before the row's, and is absent when the group has no records in  *)
(* that year (quarter).                                                    *)
C25_AsStated ==
    IsYearOrQuarterGrowth =>
        \A k \in Rows :
            IF CalendarPred(Row(k)) # {}
            THEN PrevOf(Row(k)) = Num(SumOver(CalendarPred(Row(k)), data))
            ELSE IsNaN(PrevOf(Row(k)))

(* C25 amended: the previous value of a group's row is the group's total   *)
(* of the latest earlier year (quarter) in which the group has records,    *)
(* which is the calendar-previous one when the group has records in it,    *)
(* and is absent only when the group has no earlier records at all.        *)
C25_PrecedingPeriod ==
    IsYearOrQuarterGrowth =>
        \A k \in Rows :
            IF Earlier(Row(k)) = {}
            THEN IsNaN(PrevOf(Row(k)))
            ELSE /\ PrevOf(Row(k)) = Num(PredSum(Row(k)))
                 /\ CalendarPred(Row(k)) # {} =>
                        PrevOf(Row(k)) = Num(SumOver(CalendarPred(Row(k)), data))

C25_Witness ==
    /\ result.op = "calculate_yoy_growth"
    /\ \A i \in 1..Len(data) : data[i].date.year # 2021
    /\ \E k \in Rows :
          /\ Row(k).year = 2022
          /\ Row(k).registrations = 150
          /\ PrevOf(Row(k)) = Num(200)
          /\ CalendarPred(Row(k)) = {}
          /\ PctOf(Row(k)) = Num(-25)

(***************************************************************************)
(* SpecBoth: the processor's growth and market share methods, on frames    *)
(* with two groups, two years and quarters and zero registrations; the     *)
(* GrowthCalculator functions are applied to the same frame.               *)
(***************************************************************************)
BothRows == RowsOf(GrowthDates, {"4W"}, {"A"}, {0, 100})
            \cup RowsOf(GrowthDates, {"4W"}, {"B"}, {100})

InitBoth == \E frame \in Frames(BothRows) : Constructed(frame)

NextBoth ==
    \/ calculate_yoy_growth
    \/ calculate_qoq_growth
    \/ get_market_share

SpecBoth == InitBoth /\ [][NextBoth]_vars

\* Two tables hold the same keys, once each, and under every key the same
\* values in the paired columns.
SameTable(a, b, keycols, pairs) ==
    /\ Len(a) = Len(b)
    /\ \A i, j \in 1..Len(a) :
          KeyOf(a[i], keycols) = KeyOf(a[j], keycols) => i = j
    /\ \A i \in 1..Len(a) :
          \E j \in 1..Len(b) :
              /\ KeyOf(a[i], keycols) = KeyOf(b[j], keycols)
              /\ \A p \in pairs : a[i][p[1]] = b[j][p[2]]

(* C26: what calculate_yoy_growth, calculate_qoq_growth and                *)
(* get_market_share('year') return holds, per (period, vehicle_category,   *)
(* manufacturer), the same sum, previous value, growth_abs, growth_pct and *)
(* market_share_pct as GrowthCalculator.calculate_yoy_growth,              *)
(* calculate_qoq_growth (group_cols = [vehicle_category, manufacturer])    *)
(* and calculate_market_share (period_col = 'year') on the same records.   *)
C26_ImplementationsAgree ==
    /\ result.op = "calculate_yoy_growth" =>
          SameTable(result.value,
                    GrowthCalculator_calculate_yoy_growth(data, GroupCM),
                    <<"year">> \o GroupCM,
                    {<<"registrations", "registrations">>,
                     <<"prev_year_registrations", "prev_year_value">>,
                     <<"yoy_growth_abs", "yoy_growth_abs">>,
                     <<"yoy_growth_pct", "yoy_growth_pct">>})
    /\ result.op = "calculate_qoq_growth" =>
          SameTable(result.value,
                    GrowthCalculator_calculate_qoq_growth(data, GroupCM),
                    <<"year", "quarter">> \o GroupCM,
                    {<<"registrations", "registrations">>,
                     <<"quarter_id", "quarter_id">>,
                     <<"prev_quarter_registrations", "prev_quarter_value">>,
                     <<"qoq_growth_abs", "qoq_growth_abs">>,
                     <<"qoq_growth_pct", "qoq_growth_pct">>})
    /\ (result.op = "get_market_share" /\ result.args.period = "year") =>
          SameTable(result.value,
                    GrowthCalculator_calculate_market_share(processed_data,
                                                            "year"),
                    <<"year">> \o GroupCM,
                    {<<"registrations", "registrations">>,
                     <<"category_total", "total_market">>,
                     <<"market_share_pct", "market_share_pct">>})

C26_Witness ==
    /\ result.op = "calculate_yoy_growth"
    /\ Len(result.value) = 3
    /\ \E i, j, k \in 1..3 :
          /\ result.value[i].manufacturer = "A"
          /\ result.value[i].year = 2021
          /\ result.value[i].registrations = 0
          /\ result.value[j].manufacturer = "A"
          /\ result.value[j].year = 2022
          /\ result.value[j].yoy_growth_abs = Num(100)
          /\ IsNaN(result.value[j].yoy_growth_pct)
          /\ result.value[k].manufacturer = "B"
          /\ IsNaN(result.value[k].prev_year_registrations)

(* C27: in filter_data an empty allow-list imposes nothing, exactly as an  *)
(* absent one: the call returns the records of processed_data, in their    *)
(* order, that meet the date bounds and the non-empty allow-lists, so with *)
(* an empty list of categories (or manufacturers) records of every         *)
(* category (manufacturer) are returned and not the empty result.          *)
C27_EmptyListIsAbsent ==
    (/\ result.op = "filter_data"
     /\ \/ (result.args.vehicle_categories.given
            /\ result.args.vehicle_categories.v = <<>>)
        \/ (result.args.manufacturers.given
            /\ result.args.manufacturers.v = <<>>)) =>
        LET a == result.args
            Keep(r) ==
                /\ a.start_date.given => ~DateLess(r.date, a.start_date.v)
                /\ a.end_date.given => ~DateLess(a.end_date.v, r.date)
                /\ a.vehicle_categories.v # <<>> =>
                       r.vehicle_category \in Range(a.vehicle_categories.v)
                /\ a.manufacturers.v # <<>> =>
                       r.manufacturer \in Range(a.manufacturers.v)
        IN  /\ result.raised = ""
            /\ result.value = SelectSeq(processed_data, Keep)

C27_Witness ==
    /\ result.op = "filter_data"
    /\ result.args.manufacturers = Given(<<>>)
    /\ ~result.args.vehicle_categories.given
    /\ Len(processed_data) = 2
    /\ processed_data[1].manufacturer # processed_data[2].manufacturer
    /\ result.value = processed_data

(***************************************************************************)
(* VahanDataScraper (src/src/data/scraper.py): the sample data generator.  *)
(* Dates are datetime values at midnight.  datetime.replace raises         *)
(* ValueError when the day does not exist in the new month.  The product   *)
(* base * seasonal * growth is computed exactly and truncated as int()     *)
(* does; random.randint(-100, 100) is the `noise` of a call.               *)
(***************************************************************************)
IsLeap(year) == (year % 4 = 0 /\ year % 100 # 0) \/ year % 400 = 0

DaysInMonth(year, month) ==
    IF month = 2 THEN (IF IsLeap(year) THEN 29 ELSE 28)
    ELSE IF month \in {4, 6, 9, 11} THEN 30 ELSE 31

\* int(text) of a run of decimal digits
RECURSIVE StrToInt(_)
StrToInt(s) ==
    IF s = <<>> THEN 0
    ELSE StrToInt(SubSeq(s, 1, Len(s) - 1)) * 10 + (s[Len(s)] - 48)

\* datetime.strptime(text, '%Y-%m-%d') and pd.to_datetime of such a text
ParseYmd(text) ==
    Date(StrToInt(SubSeq(text, 1, 4)), StrToInt(SubSeq(text, 6, 7)),
         StrToInt(SubSeq(text, 9, 10)))

SampleCategories == <<"2W", "3W", "4W">>

SampleManufacturers ==
    [category \in Range(SampleCategories) |->
        CASE category = "2W" -> <<"Hero MotoCorp", "Honda", "TVS", "Bajaj",
                                  "Yamaha", "Royal Enfield">>
          [] category = "3W" -> <<"Bajaj", "Mahindra", "Piaggio", "Force Motors",
                                  "Atul Auto">>
          [] category = "4W" -> <<"Maruti Suzuki", "Hyundai", "Tata Motors",
                                  "Mahindra", "Kia", "Honda Cars">>]

\* the (category, manufacturer) pairs in the order of the two inner loops
RECURSIVE PairsFrom(_)
PairsFrom(categories) ==
    IF categories = <<>> THEN <<>>
    ELSE [i \in 1..Len(SampleManufacturers[Head(categories)]) |->
             <<Head(categories), SampleManufacturers[Head(categories)][i]>>]
         \o PairsFrom(Tail(categories))

SamplePairs == PairsFrom(SampleCategories)

get_base_registrations(category, manufacturer) ==
    CASE category = "2W" ->
            (CASE manufacturer = "Hero MotoCorp" -> 50000
               [] manufacturer = "Honda" -> 35000
               [] manufacturer = "TVS" -> 25000
               [] manufacturer = "Bajaj" -> 20000
               [] manufacturer = "Yamaha" -> 15000
               [] manufacturer = "Royal Enfield" -> 8000
               [] OTHER -> 1000)
      [] category = "3W" ->
            (CASE manufacturer = "Bajaj" -> 8000
               [] manufacturer = "Mahindra" -> 6000
               [] manufacturer = "Piaggio" -> 4000
               [] manufacturer = "Force Motors" -> 2000
               [] manufacturer = "Atul Auto" -> 1500
               [] OTHER -> 1000)
      [] category = "4W" ->
            (CASE manufacturer = "Maruti Suzuki" -> 45000
               [] manufacturer = "Hyundai" -> 25000
               [] manufacturer = "Tata Motors" -> 20000
               [] manufacturer = "Mahindra" -> 15000
               [] manufacturer = "Kia" -> 12000
               [] manufacturer = "Honda Cars" -> 10000
               [] OTHER -> 1000)
      [] OTHER -> 1000

get_seasonal_factor(date) ==
    Fin(<<80, 85, 90, 110, 100, 90, 95, 110, 120, 130, 115, 95>>[date.month],
        100)

RECURSIVE FPow(_, _)
FPow(x, n) ==
    IF n = 0 THEN Num(1)
    ELSE IF n < 0 THEN FDiv(Num(1), FPow(x, -n))
    ELSE FMul(x, FPow(x, n - 1))

get_growth_factor(date, category) ==
    LET years_passed == date.year - 2020
        growth_rate == CASE category = "2W" -> Fin(5, 100)
                         [] category = "3W" -> Fin(8, 100)
                         [] category = "4W" -> Fin(12, 100)
                         [] OTHER -> Fin(7, 100)
    IN  FPow(FAdd(Num(1), growth_rate), years_passed)

\* int(x) of a finite float: truncation towards zero
FInt(x) == IF x.n < 0 THEN -((-x.n) \div x.d) ELSE x.n \div x.d

Max(a, b) == IF a < b THEN b ELSE a

SampleRecordsAt(pairs, current_date, noise) ==
    [i \in 1..Len(pairs) |->
        LET category == pairs[i][1]
            manufacturer == pairs[i][2]
            registrations ==
                FInt(FMul(FMul(Num(get_base_registrations(category, manufacturer)),
                               get_seasonal_factor(current_date)),
                          get_growth_factor(current_date, category)))
                + noise
        IN  [SampleRecord(current_date, category, manufacturer,
                          Max(0, registrations))
                EXCEPT !.date = ParseYmd(StrfYmd(current_date))]]

DayOutOfRange == "ValueError: day is out of range for month"

NoDateColumn == "KeyError: 'date'"

\* The while loop of lines 112-138.
RECURSIVE SampleLoop(_, _, _, _, _)
SampleLoop(pairs, current_date, end, noise, rows) ==
    IF DateLess(end, current_date) THEN [raised |-> "", rows |-> rows]
    ELSE LET more == rows \o SampleRecordsAt(pairs, current_date, noise)
         IN  IF current_date.month = 12
             THEN SampleLoop(pairs,
                             Date(current_date.year + 1, 1, current_date.day),
                             end, noise, more)
             ELSE IF current_date.day
                        > DaysInMonth(current_date.year, current_date.month + 1)
             THEN [raised |-> DayOutOfRange, rows |-> <<>>]
             ELSE SampleLoop(pairs,
                             Date(current_date.year, current_date.month + 1,
                                  current_date.day),
                             end, noise, more)

\* Lines 106-144 for the given (category, manufacturer) pairs; without
\* records pd.DataFrame([]) has no 'date' column.
SampleData(pairs, start_date, end_date, noise) ==
    LET loop == SampleLoop(pairs, ParseYmd(start_date), ParseYmd(end_date),
                           noise, <<>>)
    IN  IF loop.raised # "" THEN loop
        ELSE IF loop.rows = <<>> THEN [raised |-> NoDateColumn, rows |-> <<>>]
        ELSE loop

generate_sample_data_ret(start_date, end_date, noise) ==
    SampleData(SamplePairs, start_date, end_date, noise)

(***************************************************************************)
(* SpecSample: _generate_sample_data on date ranges of up to a year that   *)
(* start on days 1 to 31, cross February in a leap and in a common year,   *)
(* and cross the end of a year, or that end before they start.             *)
(***************************************************************************)
SampleStarts == {Date(2020, 1, 29), Date(2020, 10, 1), Date(2020, 11, 28),
                 Date(2020, 12, 31), Date(2021, 1, 15), Date(2021, 1, 29),
                 Date(2021, 1, 31)}

SampleEnds == {Date(2020, 3, 29), Date(2020, 12, 31), Date(2021, 1, 31),
               Date(2021, 2, 10), Date(2021, 3, 15), Date(2021, 4, 1)}

Noises == {-100, -50, 0, 50, 100}

generate_sample_data ==
    \E start \in SampleStarts, end \in SampleEnds, noise \in Noises :
        LET args == [start_date |-> StrfYmd(start), end_date |-> StrfYmd(end)]
            done == generate_sample_data_ret(args.start_date, args.end_date,
                                             noise)
        IN  /\ result' = IF done.raised # ""
                          THEN Raise("_generate_sample_data", args, done.raised)
                          ELSE Ret("_generate_sample_data", args, done.rows)
            /\ UNCHANGED <<data, raw_data, processed_data, growth_metrics,
                           vehicle_registrations>>

InitSample == Handed(<<>>)

NextSample == generate_sample_data

SpecSample == InitSample /\ [][NextSample]_vars

IsSample == result.op = "_generate_sample_data"

SampleStart == ParseYmd(result.args.start_date)

SampleEnd == ParseYmd(result.args.end_date)

\* The day of SampleStart in the k-th calendar month after it.
Visited(k) ==
    Date(SampleStart.year + ((SampleStart.month - 1 + k) \div 12),
         ((SampleStart.month - 1 + k) % 12) + 1, SampleStart.day)

VisitCount ==
    Cardinality({k \in 0..((SampleEnd.year - SampleStart.year + 1) * 12) :
                    ~DateLess(SampleEnd, Visited(k))})

(* C29: for start_date <= end_date, whatever the day of the month of       *)
(* start_date, _generate_sample_data raises nothing and returns, for       *)
(* start_date and then the same day of each following calendar month up    *)
(* to end_date, in this order, exactly 17 records, one per (category,      *)
(* manufacturer) pair, each with registrations >= 0.                       *)
C29_SampleTerminates ==
    (IsSample /\ ~DateLess(SampleEnd, SampleStart)) =>
        /\ result.raised = ""
        /\ Len(SamplePairs) = 17
        /\ Len(result.value) = 17 * VisitCount
        /\ \A k \in 0..(VisitCount - 1) :
              \A j \in 1..17 :
                  LET record == result.value[17 * k + j]
                  IN  /\ record.date = Visited(k)
                      /\ <<record.vehicle_category, record.manufacturer>>
                             = SamplePairs[j]
                      /\ record.registrations >= 0
        /\ \A i, j \in 1..17 : SamplePairs[i] = SamplePairs[j] => i = j

(***************************************************************************)
(* VahanDataScraper.load_sample_data: the three years up to now.  Dates    *)
(* are counted in days as date.toordinal does.  _scrape_real_data returns  *)
(* None on every path, so scrape_vehicle_data generates the sample.        *)
(***************************************************************************)
DaysBeforeYear(year) ==
    (year - 1) * 365 + ((year - 1) \div 4) - ((year - 1) \div 100)
    + ((year - 1) \div 400)

RECURSIVE DaysBeforeMonth(_, _)
DaysBeforeMonth(year, month) ==
    IF month = 1 THEN 0
    ELSE DaysBeforeMonth(year, month - 1) + DaysInMonth(year, month - 1)

ToOrdinal(date) ==
    DaysBeforeYear(date.year) + DaysBeforeMonth(date.year, date.month) + date.day

FromOrdinal(n) ==
    LET year == CHOOSE y \in (n \div 366)..((n \div 365) + 1) :
                    DaysBeforeYear(y) < n /\ n <= DaysBeforeYear(y + 1)
        rest == n - DaysBeforeYear(year)
        month == CHOOSE m \in 1..12 :
                    /\ DaysBeforeMonth(year, m) < rest
                    /\ rest <= DaysBeforeMonth(year, m) + DaysInMonth(year, m)
    IN  Date(year, month, rest - DaysBeforeMonth(year, month))

load_sample_data_three_days(pairs, now, noise) ==
    LET end_date == now
        start_date == FromOrdinal(ToOrdinal(end_date) - 3)
    IN  SampleData(pairs, StrfYmd(start_date), StrfYmd(end_date), noise)

load_sample_data_ret(pairs, now, noise) ==
    LET end_date == now
        start_date == FromOrdinal(ToOrdinal(end_date) - 3 * 365)
    IN  SampleData(pairs, StrfYmd(start_date), StrfYmd(end_date), noise)

(***************************************************************************)
(* DatabaseManager.get_vehicle_data without criteria: every row, ordered   *)
(* by date (the stored text), vehicle_category and manufacturer; the date  *)
(* column is parsed back to datetime.                                      *)
(***************************************************************************)
VehicleRowLess(a, b) ==
    \/ LexLess(a.date, b.date)
    \/ a.date = b.date /\ StrLess(a.vehicle_category, b.vehicle_category)
    \/ /\ a.date = b.date
       /\ a.vehicle_category = b.vehicle_category
       /\ StrLess(a.manufacturer, b.manufacturer)

OrderedRows(table) ==
    LET rows == BagToSet(table)
        place == [row \in rows |->
                     1 + Cardinality({other \in rows :
                                         VehicleRowLess(other, row)})]
    IN  [i \in 1..Cardinality(rows) |-> CHOOSE row \in rows : place[row] = i]

get_vehicle_data_ret(table) ==
    LET rows == OrderedRows(table)
    IN  [i \in 1..Len(rows) |-> [rows[i] EXCEPT !.date = ParseYmd(rows[i].date)]]

(***************************************************************************)
(* main.py: the commands `collect' and `process'.  Each opens the same     *)
(* database file.  The pipeline is followed for the records of             *)
(* PipelinePairs, one of the seventeen (category, manufacturer) pairs: the  *)
(* generator, the insert and both growth calculations treat the records of *)
(* a pair by themselves.  Clock is the date datetime.now() gives; one      *)
(* noise is drawn per run.  The CSV file save_data writes is not read by   *)
(* either command.                                                         *)
(***************************************************************************)
PipelinePairs == <<<<"4W", "Kia">>>>

Clock == {Date(2023, 1, 31), Date(2023, 3, 15), Date(2023, 5, 30)}

PipelineNoises == {-100, 0, 100}

run_data_collection ==
    \E now \in Clock, noise \in PipelineNoises :
        LET args == [now |-> StrfYmd(now)]
            sample == load_sample_data_ret(PipelinePairs, now, noise)
        IN  /\ vehicle_registrations' =
                  IF sample.raised # "" THEN vehicle_registrations
                  ELSE InsertIgnoringLoop(vehicle_registrations,
                                          VehicleDataToInsert(sample.rows),
                                          0, 0).table
            /\ result' = IF sample.raised # ""
                         THEN Raise("run_data_collection", args, sample.raised)
                         ELSE Ret("run_data_collection", args, TRUE)
            /\ UNCHANGED <<data, raw_data, processed_data, growth_metrics>>

run_data_processing ==
    \E frame \in {get_vehicle_data_ret(vehicle_registrations)} :
    \E processor \in {PrepareData(frame)} :
    \E yoy_growth \in {calculate_yoy_growth_ret(processor)} :
    \E qoq_growth \in {calculate_qoq_growth_ret(processor)} :
    \E yearly \in {IF yoy_growth = <<>> THEN growth_metrics
                   ELSE InsertAll(growth_metrics,
                                  DataToInsert(yoy_growth, "yearly"))} :
        /\ growth_metrics' =
              IF frame = <<>> THEN growth_metrics
              ELSE IF qoq_growth = <<>> THEN yearly
              ELSE InsertAll(yearly, DataToInsert(qoq_growth, "quarterly"))
        /\ result' = Ret("run_data_processing", <<>>, frame # <<>>)
        /\ UNCHANGED <<data, raw_data, processed_data, vehicle_registrations>>

InitPipeline == Handed(<<>>)

NextPipeline == run_data_collection \/ run_data_processing

SpecPipeline == InitPipeline /\ [][NextPipeline]_vars

HasMetrics(period_type) ==
    \E row \in BagToSet(growth_metrics) : row.period_type = period_type

\* C28: a `process' run on a database no `collect' has filled returns False
\* and leaves growth_metrics as it was, so growth_metrics has rows only when
\* vehicle_registrations has, and vehicle_registrations gets rows only from
\* a `collect' that completed (which always leaves some); a `process' run
\* on a filled database returns True and leaves yearly and quarterly rows
\* in growth_metrics.
C28_CollectBeforeProcess ==
    /\ [](growth_metrics # EmptyBag => vehicle_registrations # EmptyBag)
    /\ [][/\ vehicle_registrations' # vehicle_registrations
             => result'.op = "run_data_collection" /\ result'.raised = ""
          /\ result'.op = "run_data_collection" /\ result'.raised = ""
             => vehicle_registrations' # EmptyBag
          /\ result'.op = "run_data_processing"
                /\ vehicle_registrations = EmptyBag
             => result'.value = FALSE /\ growth_metrics' = growth_metrics
          /\ result'.op = "run_data_processing"
                /\ vehicle_registrations # EmptyBag
             => /\ result'.value = TRUE
                /\ HasMetrics("yearly")'
                /\ HasMetrics("quarterly")']_<<vehicle_registrations,
                                               growth_metrics, result.op,
                                               result.raised>>

C28_Witness ==
    /\ result.op = "run_data_processing"
    /\ result.value = TRUE
    /\ BagCardinality(vehicle_registrations) > 36
    /\ HasMetrics("yearly")
    /\ HasMetrics("quarterly")

(***************************************************************************)
(* SpecRank: get_manufacturer_rankings on frames with an older year, a     *)
(* manufacturer in two categories and two months of the latest quarter.    *)
(***************************************************************************)
RankRows ==
    RowsOf({Date(2020, 10, 5)}, {"4W"}, {"B"}, {500})
    \cup RowsOf({Date(2021, 1, 5)}, {"2W", "4W"}, {"A"}, {100})
    \cup RowsOf({Date(2021, 1, 5), Date(2021, 2, 5)}, {"4W"}, {"B"}, {150})

InitRank == \E frame \in Frames(RankRows) : Constructed(frame)

NextRank == get_manufacturer_rankings

SpecRank == InitRank /\ [][NextRank]_vars

IsRanking == result.op = "get_manufacturer_rankings" /\ result.raised = ""

\* The period of a record counted from its date: years, quarters or months.
PeriodIndex(row, period) ==
    CASE period = "year" -> row.date.year
      [] period = "quarter" -> row.date.year * 4 + ((row.date.month - 1) \div 3)
      [] period = "month" -> row.date.year * 12 + row.date.month

LatestRecords(period) ==
    {i \in 1..Len(processed_data) :
        \A j \in 1..Len(processed_data) :
            PeriodIndex(processed_data[j], period)
                <= PeriodIndex(processed_data[i], period)}

LatestTotal(period, manufacturer) ==
    SumOver({i \in LatestRecords(period) :
                processed_data[i].manufacturer = manufacturer},
            processed_data)

LatestManufacturers(period) ==
    {processed_data[i].manufacturer : i \in LatestRecords(period)}

\* C30: the ranking holds, for the chronologically latest year, quarter or
\* month of the data, one row per manufacturer with the sum of its
\* registrations over all categories; it has the first top_n manufacturers
\* (all of them when there are fewer), in non-increasing order of the sum,
\* and no manufacturer left out has a larger sum than a returned one.
C30_RankingOfLatestPeriod ==
    IsRanking =>
        LET period == result.args.period
            top_n == result.args.top_n
            ranking == result.value
            present == LatestManufacturers(period)
            returned == {ranking[i].manufacturer : i \in 1..Len(ranking)}
        IN  /\ returned \subseteq present
            /\ \A i \in 1..Len(ranking) :
                  ranking[i].registrations
                      = LatestTotal(period, ranking[i].manufacturer)
            /\ \A i, j \in 1..Len(ranking) :
                  i # j => ranking[i].manufacturer # ranking[j].manufacturer
            /\ Len(ranking) = IF top_n < Cardinality(present) THEN top_n
                              ELSE Cardinality(present)
            /\ \A i \in 1..(Len(ranking) - 1) :
                  ranking[i].registrations >= ranking[i + 1].registrations
            /\ \A i \in 1..Len(ranking) : \A m \in present \ returned :
                  ranking[i].registrations >= LatestTotal(period, m)

C30_Witness ==
    /\ IsRanking
    /\ result.args.period = "year"
    /\ result.args.top_n = 1
    /\ Cardinality(LatestRecords("year")) < Len(processed_data)
    /\ Cardinality(LatestManufacturers("year")) = 2
    /\ Len(result.value) = 1
    /\ result.value[1].manufacturer = "B"
    /\ result.value[1].registrations = 150

=============================================================================
